---- MODULE Spec2Model ----
(***************************************************************************)
(* The user store (users.py) and the user-management endpoints (main.py)   *)
(* of the doughmination.win backend, as a state machine.                   *)
(*                                                                         *)
(* Python values are represented as follows.                               *)
(*   Optional[T]   a set with at most one element: None is {}, x is {x}    *)
(*   str           a tuple of characters, so that str.lower() is computed  *)
(*   bcrypt hash   the tuple <<"$2b$">> \o plaintext                        *)
(*   users.json    the sequence of stored user dicts, in file order        *)
(***************************************************************************)
EXTENDS Integers, Sequences, FiniteSets, TLC

\* ------------------------------------------------------------------ bounds
\* Number of uuids the process hands out (uuid.uuid4() never repeats).
MaxIds == 2
\* Number of times two requests arrive together.
MaxRounds == 1

\* ------------------------------------------------------------- Python glue
None == {}
Some(x) == {x}
Val(o) == CHOOSE v \in o : TRUE

\* str.lower() on one character
LowerChar(c) ==
    CASE c = "A" -> "a"
      [] c = "B" -> "b"
      [] c = "C" -> "c"
      [] OTHER -> c

\* str.lower()
lower(s) == [i \in DOMAIN s |-> LowerChar(s[i])]

\* bcrypt.hash(password): one-way, the result is never the plaintext
bcrypt_hash(password) == <<"$2b$">> \o password

\* plausible slip: the result of the verification is not looked at
bcrypt_verify_Always(password, hash) == TRUE

\* bcrypt.verify(password, hash)
bcrypt_verify(password, hash) == hash = bcrypt_hash(password)

\* Python truthiness of an Optional[str]: None and "" are falsy
Truthy(o) == o # None /\ Val(o) # <<>>

\* ------------------------------------------------------------ input values
admin == <<"a", "d", "m", "i", "n">>
Admin == <<"A", "d", "m", "i", "n">>
bob == <<"b", "o", "b">>
Bob == <<"B", "o", "b">>
cy == <<"c", "y">>

p1 == <<"p", "1">>
p2 == <<"p", "2">>

Usernames == {admin, Admin, bob, Bob, cy}

\* request bodies of POST /api/users (models.UserCreate)
UserCreates ==
    [username : Usernames, password : {p1}, display_name : {"d1"},
     is_admin : BOOLEAN, is_pet : BOOLEAN]

\* (current_password, new_password) pairs of a UserUpdate
PasswordChanges == {<<None, None>>}

\* request bodies of PUT /api/users/{user_id} (models.UserUpdate)
UserUpdates ==
    {[current_password |-> pw[1], new_password |-> pw[2], display_name |-> dn,
      is_admin |-> a, is_pet |-> p, avatar_url |-> av] :
        pw \in PasswordChanges, dn \in {None, Some("d2")},
        a \in {None, Some(TRUE), Some(FALSE)}, p \in {None, Some(TRUE)},
        av \in {None}}

\* the environment: ADMIN_USERNAME and ADMIN_PASSWORD, both unset (the defaults
\* "admin" / "admin", a plaintext) or both set, the password to a bcrypt hash
Environments ==
    {<<None, None>>, <<Some(Admin), Some(bcrypt_hash(p1))>>}

VARIABLES
    USERS_FILE,      \* content of dough-data/users.json (<<>>: absent or empty)
    ADMIN_USERNAME,  \* environment variable, Optional[str]
    ADMIN_PASSWORD,  \* environment variable, Optional[str]
    started,         \* initialize_admin_user() has run: the app serves requests
    next_uuid,       \* the next value uuid.uuid4() returns
    request,         \* the call in flight, Optional
    response,        \* its outcome once handled, Optional
    tasks,           \* the handler coroutines of concurrent requests
    running,         \* the coroutine the event loop is running, or "none"
    round,           \* concurrent requests: how many rounds, the file at arrival
    torn,            \* users.json is cut short: not a complete JSON document
    active_connections,  \* ConnectionManager.active_connections: group -> set
    websockets,      \* each WebSocket: its endpoint's position and its transport
    bcast,           \* the broadcast call in flight
    overlap,         \* a second broadcast call, in flight at the same time
    connection_lock, \* ConnectionManager._connection_lock: its holder, Optional
    mutation,        \* the last change of a group's set: by which method, and
                     \* whether inside "async with self._connection_lock"
    managers,        \* active_connections of the ConnectionManager that the
                     \* websocket_endpoint call for each WebSocket has created
    serving,         \* each websocket_endpoint call: position, transport, frames
    fronters,        \* the fronters the PluralKit API holds
    switches,        \* the front-switch requests in flight
    mental_state,    \* content of mental_state.json
    member_status,   \* the member statuses member_status.py keeps
    member_tags      \* the member tags tags.py keeps

taskVars == <<tasks, running, round>>

cmVars == <<active_connections, websockets, bcast, mutation, overlap,
           connection_lock>>

epVars == <<managers, serving>>

dispVars == <<fronters, switches, mental_state, member_status, member_tags>>

wsVars == <<cmVars, epVars, dispVars>>

userVars == <<USERS_FILE, ADMIN_USERNAME, ADMIN_PASSWORD, started, next_uuid,
              request, response>>

vars == <<userVars, taskVars, torn, wsVars>>

\* --------------------------------------------------------------- users.py
get_owner_username == IF ADMIN_USERNAME = None THEN admin ELSE Val(ADMIN_USERNAME)

\* plausible slip: the configured name is not lowered before the comparison
is_owner_username_NoLowerEnv(username) == lower(username) = get_owner_username

is_owner_username(username) == lower(username) = lower(get_owner_username)

get_users(file) ==
    [i \in DOMAIN file |->
        IF is_owner_username(file[i].username)
        THEN [file[i] EXCEPT !.is_owner = TRUE, !.is_admin = TRUE]
        ELSE file[i]]

save_users(users) ==
    [i \in DOMAIN users |->
        IF is_owner_username(users[i].username)
        THEN [users[i] EXCEPT !.is_owner = TRUE, !.is_admin = TRUE]
        ELSE users[i]]

\* index of the first element of seq satisfying Test, 0 if none
FirstIndex(seq, Test(_)) ==
    IF \E i \in DOMAIN seq : Test(seq[i])
    THEN CHOOSE i \in DOMAIN seq :
            Test(seq[i]) /\ \A j \in 1..(i - 1) : ~Test(seq[j])
    ELSE 0

\* plausible slip: the usernames are compared as they are
get_user_by_username_CaseSensitive(file, username) ==
    LET users == get_users(file)
        Match(user) == user.username = username
        i == FirstIndex(users, Match)
    IN  IF i = 0 THEN None ELSE Some(users[i])

get_user_by_username(file, username) ==
    LET users == get_users(file)
        Match(user) == lower(user.username) = lower(username)
        i == FirstIndex(users, Match)
    IN  IF i = 0 THEN None ELSE Some(users[i])

get_user_by_id(file, user_id) ==
    LET users == get_users(file)
        Match(user) == user.id = user_id
        i == FirstIndex(users, Match)
    IN  IF i = 0 THEN None ELSE Some(users[i])

\* The result of a store call: the exception raised ("" if none), the file
\* content afterwards and the returned value.
Raise(exc, file) == [exc |-> exc, file |-> file, ret |-> None]
Return(ret, file) == [exc |-> "", file |-> file, ret |-> ret]

\* plausible slip: the new record's is_owner copies the requested is_admin
create_permissions_OwnerFromAdmin(user_create) ==
    IF is_owner_username(user_create.username)
    THEN [is_owner |-> TRUE, is_admin |-> TRUE, is_pet |-> FALSE]
    ELSE [is_owner |-> user_create.is_admin,
          is_admin |-> user_create.is_admin,
          is_pet |-> user_create.is_pet]

\* create_user, "Determine permissions"
create_permissions(user_create) ==
    IF is_owner_username(user_create.username)
    THEN [is_owner |-> TRUE, is_admin |-> TRUE, is_pet |-> FALSE]
    ELSE [is_owner |-> FALSE,
          is_admin |-> user_create.is_admin,
          is_pet |-> user_create.is_pet]

\* create_user from line 90 on: users is what line 88 read, file is the file
\* content when line 91 reads it again.
create_user_rw(users, file, user_create, requesting_user, uuid) ==
    IF get_user_by_username(file, user_create.username) # None
    THEN Raise("ValueError", file)
    ELSE IF is_owner_username(user_create.username) /\ requesting_user # None
    THEN Raise("PermissionError", file)
    ELSE
        LET perm == create_permissions(user_create)
            new_user == [
                id |-> uuid,
                username |-> user_create.username,
                password_hash |-> bcrypt_hash(user_create.password),
                display_name |-> user_create.display_name,
                is_admin |-> perm.is_admin,
                is_owner |-> perm.is_owner,
                is_pet |-> perm.is_pet,
                avatar_url |-> None]
        IN  Return(Some(new_user), save_users(Append(users, new_user)))

create_user(file, user_create, requesting_user, uuid) ==
    create_user_rw(get_users(file), file, user_create, requesting_user, uuid)

\* plausible slip: the owner's admin flag is not protected
owner_admin_block_Missing(user, user_update) == FALSE

\* update_user, "Prevent changing owner's is_owner or is_admin flags"
owner_admin_block(user, user_update) ==
    user.is_owner /\ user_update.is_admin = Some(FALSE)

\* plausible slip: any requesting user may modify an admin account
admin_account_block_Missing(user, requesting_user) == FALSE

\* update_user, "Only owner can modify admin accounts (except themselves)"
admin_account_block(user, requesting_user) ==
    /\ requesting_user # None
    /\ user.is_admin
    /\ Val(requesting_user).id # user.id
    /\ ~Val(requesting_user).is_owner

\* update_user, "Verify current password if attempting to change password"
changes_password(user_update) ==
    Truthy(user_update.current_password) /\ Truthy(user_update.new_password)

\* plausible slip: a patch without is_pet resets the flag
update_permissions_PetReset(user, user_update) ==
    LET new_is_owner == is_owner_username(user.username) IN
    [is_owner |-> new_is_owner,
     is_admin |->
        IF new_is_owner THEN TRUE
        ELSE IF user_update.is_admin # None THEN Val(user_update.is_admin)
        ELSE user.is_admin,
     is_pet |->
        IF user_update.is_pet # None THEN Val(user_update.is_pet)
        ELSE FALSE]

\* update_user, "Determine new permissions"
update_permissions(user, user_update) ==
    LET new_is_owner == is_owner_username(user.username) IN
    [is_owner |-> new_is_owner,
     is_admin |->
        IF new_is_owner THEN TRUE
        ELSE IF user_update.is_admin # None THEN Val(user_update.is_admin)
        ELSE user.is_admin,
     is_pet |->
        IF user_update.is_pet # None THEN Val(user_update.is_pet)
        ELSE user.is_pet]

\* update_user from line 142 on, users being what line 140 read
update_user_rw(users, file, user_id, user_update, requesting_user) ==
    LET Match(user) == user.id = user_id
        i == FirstIndex(users, Match)
    IN
    IF i = 0 THEN Return(None, file)
    ELSE
        LET user == users[i] IN
        IF owner_admin_block(user, user_update)
        THEN Raise("PermissionError", file)
        ELSE IF admin_account_block(user, requesting_user)
        THEN Raise("PermissionError", file)
        ELSE IF /\ changes_password(user_update)
                /\ ~bcrypt_verify(Val(user_update.current_password), user.password_hash)
        THEN Raise("ValueError", file)
        ELSE
            LET perm == update_permissions(user, user_update)
                updated_user == [
                    id |-> user.id,
                    username |-> user.username,
                    password_hash |->
                        IF changes_password(user_update)
                        THEN bcrypt_hash(Val(user_update.new_password))
                        ELSE user.password_hash,
                    display_name |->
                        IF user_update.display_name # None
                        THEN Val(user_update.display_name)
                        ELSE user.display_name,
                    is_admin |-> perm.is_admin,
                    is_owner |-> perm.is_owner,
                    is_pet |-> perm.is_pet,
                    avatar_url |->
                        IF user_update.avatar_url # None
                        THEN user_update.avatar_url
                        ELSE user.avatar_url]
            IN  Return(Some(updated_user),
                       save_users([users EXCEPT ![i] = updated_user]))

update_user(file, user_id, user_update, requesting_user) ==
    update_user_rw(get_users(file), file, user_id, user_update, requesting_user)

\* plausible slip: the owner is not protected from deletion
delete_owner_block_Missing(user_to_delete) == FALSE

\* delete_user, "Prevent deleting the owner"
delete_owner_block(user_to_delete) == user_to_delete.is_owner

\* delete_user, "Only owner can delete admins"
delete_admin_block(user_to_delete, requesting_user) ==
    /\ requesting_user # None
    /\ user_to_delete.is_admin
    /\ ~Val(requesting_user).is_owner

\* plausible slip: an id that no record has is an error
delete_user_rw_AbsentRaises(users, file, user_id, requesting_user) ==
    LET Match(user) == user.id = user_id
        i == FirstIndex(users, Match)
    IN
    IF i = 0 THEN Raise("ValueError", file)
    ELSE
        LET user_to_delete == users[i] IN
        IF delete_owner_block(user_to_delete)
        THEN Raise("PermissionError", file)
        ELSE IF delete_admin_block(user_to_delete, requesting_user)
        THEN Raise("PermissionError", file)
        ELSE Return(TRUE, save_users(SelectSeq(users, LAMBDA user : user.id # user_id)))

\* plausible slip: the owner check sits under the requesting_user check, as
\* the one in create_user does
delete_user_rw_OwnerCheckNeedsActor(users, file, user_id, requesting_user) ==
    LET Match(user) == user.id = user_id
        i == FirstIndex(users, Match)
    IN
    IF i = 0 THEN Return(FALSE, file)
    ELSE
        LET user_to_delete == users[i] IN
        IF delete_owner_block(user_to_delete) /\ requesting_user # None
        THEN Raise("PermissionError", file)
        ELSE IF delete_admin_block(user_to_delete, requesting_user)
        THEN Raise("PermissionError", file)
        ELSE Return(TRUE, save_users(SelectSeq(users, LAMBDA user : user.id # user_id)))

\* delete_user from line 213 on, users being what line 211 read
delete_user_rw(users, file, user_id, requesting_user) ==
    LET Match(user) == user.id = user_id
        i == FirstIndex(users, Match)
    IN
    IF i = 0 THEN Return(FALSE, file)
    ELSE
        LET user_to_delete == users[i] IN
        IF delete_owner_block(user_to_delete)
        THEN Raise("PermissionError", file)
        ELSE IF delete_admin_block(user_to_delete, requesting_user)
        THEN Raise("PermissionError", file)
        ELSE
            LET kept == SelectSeq(users, LAMBDA user : user.id # user_id) IN
            IF Len(kept) < Len(users)
            THEN Return(TRUE, save_users(kept))
            ELSE Return(FALSE, file)

delete_user(file, user_id, requesting_user) ==
    delete_user_rw(get_users(file), file, user_id, requesting_user)

\* re.match(r'^\$2[aby]\$\d+\$.+', s): s is already a bcrypt hash
is_hash(s) == Len(s) >= 2 /\ s[1] = "$2b$"

\* plausible slip: the password is stored as given, as if it were always a hash
initialize_admin_user_file_StoredAsGiven(file, uuid) ==
    LET users == get_users(file) IN
    IF users # <<>> THEN file
    ELSE save_users(Append(users, [
            id |-> uuid,
            username |-> get_owner_username,
            password_hash |->
                IF ~Truthy(ADMIN_PASSWORD) THEN admin ELSE Val(ADMIN_PASSWORD),
            display_name |-> "Administrator",
            is_admin |-> TRUE,
            is_owner |-> TRUE,
            is_pet |-> FALSE,
            avatar_url |-> None]))

\* plausible slip: a store that has records is normalised and written back
initialize_admin_user_file_SavesAnyway(file, uuid) ==
    LET users == get_users(file) IN
    IF users # <<>> THEN save_users(users)
    ELSE initialize_admin_user_file_StoredAsGiven(file, uuid)

\* initialize_admin_user() on the file content: the content afterwards
initialize_admin_user_file(file, uuid) ==
    LET users == get_users(file) IN
    IF users # <<>> THEN file
    ELSE
        LET admin_username == get_owner_username
            admin_password_or_hash ==
                IF ~Truthy(ADMIN_PASSWORD) THEN admin ELSE Val(ADMIN_PASSWORD)
            admin_display_name == "Administrator"
        IN
        IF is_hash(admin_password_or_hash)
        THEN save_users(Append(users, [
                id |-> uuid,
                username |-> admin_username,
                password_hash |-> admin_password_or_hash,
                display_name |-> admin_display_name,
                is_admin |-> TRUE,
                is_owner |-> TRUE,
                is_pet |-> FALSE,
                avatar_url |-> None]))
        ELSE create_user(file,
                [username |-> admin_username,
                 password |-> admin_password_or_hash,
                 display_name |-> admin_display_name,
                 is_admin |-> TRUE,
                 is_pet |-> FALSE],
                None, uuid).file

\* verify_user(username, password): the user, if the password is theirs
verify_user(file, username, password) ==
    LET user == get_user_by_username(file, username) IN
    IF user # None /\ bcrypt_verify(password, Val(user).password_hash)
    THEN user
    ELSE None

\* ---------------------------------------------------------------- main.py
\* An endpoint's answer: the HTTP status, the exception the store call raised
\* ("" if none, or if the store was not called) and the file content afterwards.
Answer(status, r) == [status |-> status, exc |-> r.exc, file |-> r.file, called |-> TRUE]
Reject(status, file) == [status |-> status, exc |-> "", file |-> file, called |-> FALSE]

\* plausible slip: DELETE checks self-deletion but not the admin flag
precheck_DeleteUnguarded(op, user_id, current_user) ==
    CASE op = "create" -> IF ~current_user.is_admin THEN 403 ELSE 0
      [] op = "delete" -> IF user_id = current_user.id THEN 400 ELSE 0
      [] op = "update" ->
            IF ~current_user.is_admin /\ current_user.id # user_id THEN 403 ELSE 0
      [] op = "list" -> IF ~current_user.is_admin THEN 403 ELSE 0

\* plausible slip: DELETE lacks the self-deletion check
precheck_NoSelfCheck(op, user_id, current_user) ==
    CASE op = "create" -> IF ~current_user.is_admin THEN 403 ELSE 0
      [] op = "delete" -> IF ~current_user.is_admin THEN 403 ELSE 0
      [] op = "update" ->
            IF ~current_user.is_admin /\ current_user.id # user_id THEN 403 ELSE 0
      [] op = "list" -> IF ~current_user.is_admin THEN 403 ELSE 0

\* the HTTPException an endpoint raises before it calls the store (0: none)
precheck(op, user_id, current_user) ==
    CASE op = "create" -> IF ~current_user.is_admin THEN 403 ELSE 0
      [] op = "delete" ->
            IF ~current_user.is_admin THEN 403
            ELSE IF user_id = current_user.id THEN 400
            ELSE 0
      [] op = "update" ->
            IF ~current_user.is_admin /\ current_user.id # user_id THEN 403 ELSE 0
      [] op = "list" -> IF ~current_user.is_admin THEN 403 ELSE 0

\* the status an endpoint answers with, given the store call's result r; an
\* exception that no except clause catches ends as 500
answer_status(op, r) ==
    CASE op = "create" ->
            IF r.exc = "ValueError" THEN 400
            ELSE IF r.exc # "" THEN 500
            ELSE 200
      [] op = "delete" ->
            IF r.exc # "" THEN 500
            ELSE IF r.ret = FALSE THEN 404
            ELSE 200
      [] op = "update" ->
            IF r.exc = "ValueError" THEN 400
            ELSE IF r.exc # "" THEN 500
            ELSE IF r.ret = None THEN 404
            ELSE 200
      [] op = "list" -> 200

\* POST /api/users
add_user_handler(file, user_create, current_user, uuid) ==
    IF precheck("create", 0, current_user) # 0
    THEN Reject(precheck("create", 0, current_user), file)
    ELSE
        LET r == create_user(file, user_create, None, uuid)
        IN  Answer(answer_status("create", r), r)

\* DELETE /api/users/{user_id}
remove_user_handler(file, user_id, current_user) ==
    IF precheck("delete", user_id, current_user) # 0
    THEN Reject(precheck("delete", user_id, current_user), file)
    ELSE
        LET r == delete_user(file, user_id, None)
        IN  Answer(answer_status("delete", r), r)

\* PUT /api/users/{user_id}
update_user_info_handler(file, user_id, user_update, current_user) ==
    IF precheck("update", user_id, current_user) # 0
    THEN Reject(precheck("update", user_id, current_user), file)
    ELSE
        LET r == update_user(file, user_id, user_update, None)
        IN  Answer(answer_status("update", r), r)

\* GET /api/users
list_users_handler(file, current_user) ==
    IF precheck("list", 0, current_user) # 0
    THEN Reject(precheck("list", 0, current_user), file)
    ELSE Answer(200, Return(get_users(file), file))

\* The endpoints are coroutines on one event loop: a handler that has started
\* runs until it awaits.  The bodies of add_user, remove_user and
\* update_user_info contain no await, so none of their steps yields.
AwaitPoints == {}

\* plausible slip: the handler can be suspended between any two steps (a plain
\* def endpoint run in the thread pool, or an await between read and write)
yields_Everywhere(pc) == TRUE

yields(pc) == pc \in AwaitPoints

\* ------------------------------------------------------------ state machine
\* A call in flight.  layer is "boot" for the module import, "store" for a
\* direct call of a users.py function and "http" for an endpoint; actor is the
\* requesting_user argument (store, Optional) or the authenticated
\* current_user (http).
Call(layer, op, actor, user_id, user_create, user_update) ==
    [layer |-> layer, op |-> op, actor |-> actor, user_id |-> user_id,
     user_create |-> user_create, user_update |-> user_update]

\* what the caller gets back: the HTTP status (0 outside http), the exception
\* the store function raised, whether the store function was called, and the
\* file content the handler started from
Outcome(status, exc, called, before) ==
    [status |-> status, exc |-> exc, called |-> called, before |-> before]

\* ids that a request can name: every uuid handed out so far, and one that
\* no record has
UserIds == 1..next_uuid

\* the users a valid token resolves to (auth.get_current_user)
CurrentUsers == {get_users(USERS_FILE)[i] : i \in DOMAIN USERS_FILE}

\* the requests a client can send to the user-management endpoints
HttpCalls ==
    {Call("http", "create", Some(u), 0, Some(uc), None) :
        u \in CurrentUsers, uc \in UserCreates}
    \cup {Call("http", "update", Some(u), id, None, Some(uu)) :
        u \in CurrentUsers, id \in UserIds, uu \in UserUpdates}
    \cup {Call("http", "delete", Some(u), id, None, None) :
        u \in CurrentUsers, id \in UserIds}
    \cup {Call("http", "list", Some(u), 0, None, None) : u \in CurrentUsers}

\* the calls of the users.py functions, with or without a requesting_user
RequestingUsers == {None} \cup {Some(u) : u \in CurrentUsers}

StoreCalls ==
    {Call("store", "create", ru, 0, Some(uc), None) :
        ru \in RequestingUsers, uc \in UserCreates}
    \cup {Call("store", "update", ru, id, None, Some(uu)) :
        ru \in RequestingUsers, id \in UserIds, uu \in UserUpdates}
    \cup {Call("store", "delete", ru, id, None, None) :
        ru \in RequestingUsers, id \in UserIds}

\* two requests in flight at once
Tasks == {"t1", "t2"}

IdleTask ==
    [pc |-> "idle", call |-> None, users |-> <<>>, write |-> <<>>,
     status |-> 0, exc |-> ""]

\* ------------------------------------------------------ ConnectionManager
\* the WebSocket objects of the clients that connect
MaxConns == 2
WebSockets == 1..MaxConns

\* the keys of active_connections (main.py:361-364)
Groups == {"all", "authenticated"}

\* a WebSocket before websocket.accept(): pc is the position of the code that
\* called connect, group the group it asked for, transport "closed" once the
\* client is gone and sends fail
NewWebSocket == [pc |-> "new", group |-> "all", transport |-> "open"]

\* no broadcast call in flight
NoBroadcast ==
    [pc |-> "idle", group |-> "all", connections |-> <<>>, i |-> 0,
     disconnected |-> {}, received |-> [ws \in WebSockets |-> 0], raised |-> ""]

\* ConnectionManager.__init__
\* a websocket_endpoint call that has not begun
NotServing ==
    [pc |-> "new", transport |-> "open", event |-> "none", out |-> <<>>,
     disconnects |-> 0]

\* the front-switch requests that arrive together, and the system's members
Requests == {"r1", "r2"}
Members == {"m1", "m2"}

NoSwitch ==
    [pc |-> "idle", endpoint |-> "", body |-> <<>>, applied |-> FALSE,
     fetched |-> None, events |-> <<>>, status |-> 0]

InitConnections ==
    /\ active_connections = [group \in Groups |-> {}]
    /\ websockets = [ws \in WebSockets |-> NewWebSocket]
    /\ bcast = NoBroadcast
    /\ mutation = [by |-> "none", locked |-> FALSE]
    /\ overlap = NoBroadcast
    /\ connection_lock = None
    /\ managers = [ws \in WebSockets |-> [group \in Groups |-> {}]]
    /\ serving = [ws \in WebSockets |-> NotServing]
    /\ fronters = <<>>
    /\ switches = [r \in Requests |-> NoSwitch]
    /\ mental_state = "safe"
    /\ member_status = [m \in Members |-> None]
    /\ member_tags = [m \in Members |-> {}]

Init ==
    /\ USERS_FILE = <<>>
    /\ \E env \in Environments :
          /\ ADMIN_USERNAME = env[1]
          /\ ADMIN_PASSWORD = env[2]
    /\ started = FALSE
    /\ next_uuid = 1
    /\ request = None
    /\ response = None
    /\ tasks = [t \in Tasks |-> IdleTask]
    /\ running = "none"
    /\ round = [n |-> 0, file |-> <<>>, files |-> {}]
    /\ torn = FALSE
    /\ InitConnections

Idle ==
    /\ request = None
    /\ response = None
    /\ \A t \in Tasks : tasks[t].pc = "idle"

\* the response has been sent, the call has returned
Reply ==
    /\ request # None
    /\ response # None
    /\ request' = None
    /\ response' = None
    /\ UNCHANGED <<USERS_FILE, ADMIN_USERNAME, ADMIN_PASSWORD, started, next_uuid,
                   taskVars, torn, wsVars>>

\* a call has arrived while nothing was being served and its handler runs to
\* its end: file is the file content it leaves.  A record is added only while a
\* uuid is left to draw.
Handled(call, file, status, exc, called) ==
    /\ ~torn
    /\ Len(file) > Len(USERS_FILE) => next_uuid <= MaxIds
    /\ request' = Some(call)
    /\ USERS_FILE' = file
    /\ response' = Some(Outcome(status, exc, called, USERS_FILE))
    /\ next_uuid' = IF Len(file) > Len(USERS_FILE) THEN next_uuid + 1 ELSE next_uuid
    /\ UNCHANGED <<ADMIN_USERNAME, ADMIN_PASSWORD, taskVars, torn, wsVars>>

\* the process starts (or restarts): main.py is imported
initialize_admin_user ==
    /\ Idle
    /\ Handled(Call("boot", "initialize_admin_user", None, 0, None, None),
               initialize_admin_user_file(USERS_FILE, next_uuid), 0, "", TRUE)
    /\ started' = TRUE

\* a request arrives with its token resolved to current_user, and is served
add_user ==
    /\ started
    /\ Idle
    /\ \E call \in HttpCalls :
          /\ call.op = "create"
          /\ LET a == add_user_handler(USERS_FILE, Val(call.user_create),
                                       Val(call.actor), next_uuid)
             IN  Handled(call, a.file, a.status, a.exc, a.called)
    /\ UNCHANGED started

remove_user ==
    /\ started
    /\ Idle
    /\ \E call \in HttpCalls :
          /\ call.op = "delete"
          /\ LET a == remove_user_handler(USERS_FILE, call.user_id, Val(call.actor))
             IN  Handled(call, a.file, a.status, a.exc, a.called)
    /\ UNCHANGED started

update_user_info ==
    /\ started
    /\ Idle
    /\ \E call \in HttpCalls :
          /\ call.op = "update"
          /\ LET a == update_user_info_handler(USERS_FILE, call.user_id,
                                               Val(call.user_update), Val(call.actor))
             IN  Handled(call, a.file, a.status, a.exc, a.called)
    /\ UNCHANGED started

list_users ==
    /\ started
    /\ Idle
    /\ \E call \in HttpCalls :
          /\ call.op = "list"
          /\ LET a == list_users_handler(USERS_FILE, Val(call.actor))
             IN  Handled(call, a.file, a.status, a.exc, a.called)
    /\ UNCHANGED started

\* direct calls of the users.py functions, with any requesting_user
call_create_user ==
    /\ started
    /\ Idle
    /\ \E call \in StoreCalls :
          /\ call.op = "create"
          /\ LET r == create_user(USERS_FILE, Val(call.user_create), call.actor,
                                  next_uuid)
             IN  Handled(call, r.file, 0, r.exc, TRUE)
    /\ UNCHANGED started

call_update_user ==
    /\ started
    /\ Idle
    /\ \E call \in StoreCalls :
          /\ call.op = "update"
          /\ LET r == update_user(USERS_FILE, call.user_id, Val(call.user_update),
                                  call.actor)
             IN  Handled(call, r.file, 0, r.exc, TRUE)
    /\ UNCHANGED started

call_delete_user ==
    /\ started
    /\ Idle
    /\ \E call \in StoreCalls :
          /\ call.op = "delete"
          /\ LET r == delete_user(USERS_FILE, call.user_id, call.actor)
             IN  Handled(call, r.file, 0, r.exc, TRUE)
    /\ UNCHANGED started

\* the application: bootstrap and the user-management endpoints
Next ==
    \/ initialize_admin_user
    \/ add_user
    \/ remove_user
    \/ update_user_info
    \/ list_users
    \/ Reply

Spec == Init /\ [][Next]_vars

\* the users.py interface: bootstrap and direct calls with any requesting_user
NextStore ==
    \/ initialize_admin_user
    \/ call_create_user
    \/ call_update_user
    \/ call_delete_user
    \/ Reply

SpecStore == Init /\ [][NextStore]_vars

\* ------------------------------------------------- concurrent requests
\* request bodies of the requests that arrive together
TaskCreates ==
    [username : {bob, Bob, cy}, password : {p1}, display_name : {"d1"},
     is_admin : BOOLEAN, is_pet : {FALSE}]

TaskUpdates ==
    {[current_password |-> None, new_password |-> None, display_name |-> Some("d2"),
      is_admin |-> None, is_pet |-> None, avatar_url |-> None],
     [current_password |-> None, new_password |-> None, display_name |-> None,
      is_admin |-> None, is_pet |-> Some(TRUE), avatar_url |-> None]}

ExistingIds == {USERS_FILE[i].id : i \in DOMAIN USERS_FILE}

\* the users whose requests reach the store: the administrators
TaskActors == {u \in CurrentUsers : u.is_admin}

TaskCalls ==
    {Call("http", "create", Some(u), 0, Some(uc), None) :
        u \in TaskActors, uc \in TaskCreates}
    \cup {Call("http", "update", Some(u), id, None, Some(uu)) :
        u \in TaskActors, id \in ExistingIds, uu \in TaskUpdates}
    \cup {Call("http", "delete", Some(u), id, None, None) :
        u \in TaskActors, id \in ExistingIds}
    \cup {Call("http", "list", Some(u), 0, None, None) : u \in TaskActors}

\* two requests arrive while no handler runs; each token has been resolved
Submit ==
    /\ started
    /\ Idle
    /\ round.n < MaxRounds
    /\ \E c1, c2 \in TaskCalls :
          tasks' = [t \in Tasks |->
                      [IdleTask EXCEPT !.pc = "ready",
                                       !.call = Some(IF t = "t1" THEN c1 ELSE c2)]]
    /\ round' = [n |-> round.n + 1, file |-> USERS_FILE, files |-> {USERS_FILE}]
    /\ UNCHANGED <<USERS_FILE, ADMIN_USERNAME, ADMIN_PASSWORD, started, next_uuid,
                   request, response, running, torn, wsVars>>

\* the event loop runs t: it is running it already, or runs nothing
CanRun(t) == running \in {"none", t}

\* the event loop after t's step to pc: t keeps it unless it awaits or ends
Loop(t, pc) == IF pc = "done" \/ yields(pc) THEN "none" ELSE t

\* the endpoint's checks, then users = get_users() (users.py:88, 140, 211;
\* main.py:792); json.load raises on a file that open(..., "w") has truncated
\* and json.dump has not filled yet, and list_users answers after its read
task_read ==
    \E t \in Tasks :
        /\ tasks[t].pc = "ready"
        /\ CanRun(t)
        /\ LET call == Val(tasks[t].call)
               status == precheck(call.op, call.user_id, Val(call.actor))
               reads == status = 0
               pc == IF status # 0 \/ torn \/ call.op = "list"
                     THEN "done" ELSE "check"
           IN  /\ tasks' = [tasks EXCEPT
                    ![t].pc = pc,
                    ![t].status = IF reads /\ torn THEN 500
                                  ELSE IF reads /\ call.op = "list" THEN 200
                                  ELSE status,
                    ![t].exc = IF reads /\ torn THEN "JSONDecodeError" ELSE "",
                    ![t].users = IF reads /\ ~torn THEN get_users(USERS_FILE)
                                 ELSE <<>>]
               /\ running' = Loop(t, pc)
        /\ UNCHANGED <<USERS_FILE, ADMIN_USERNAME, ADMIN_PASSWORD, started, next_uuid,
                       request, response, round, torn, wsVars>>

\* the result of the store function on the users a task has read; create_user
\* reads the file once more for its duplicate check
task_result(t) ==
    LET call == Val(tasks[t].call) IN
    CASE call.op = "create" ->
            create_user_rw(tasks[t].users, USERS_FILE, Val(call.user_create),
                           None, next_uuid)
      [] call.op = "update" ->
            update_user_rw(tasks[t].users, USERS_FILE, call.user_id,
                           Val(call.user_update), None)
      [] call.op = "delete" ->
            delete_user_rw(tasks[t].users, USERS_FILE, call.user_id, None)

\* the store function up to its save_users call: the checks, and the list to
\* write (users.py:90-122, 142-194, 213-236)
task_check ==
    \E t \in Tasks :
        /\ tasks[t].pc = "check"
        /\ CanRun(t)
        /\ LET call == Val(tasks[t].call)
               r == IF torn /\ call.op = "create"
                    THEN Raise("JSONDecodeError", USERS_FILE)
                    ELSE task_result(t)
               saves == /\ r.exc = ""
                        /\ IF call.op = "delete" THEN r.ret ELSE r.ret # None
               pc == IF saves THEN "write" ELSE "done"
           IN  /\ tasks' = [tasks EXCEPT ![t].pc = pc,
                                         ![t].status = answer_status(call.op, r),
                                         ![t].exc = r.exc,
                                         ![t].write = IF saves THEN r.file ELSE <<>>]
               /\ next_uuid' = IF saves /\ call.op = "create"
                               THEN next_uuid + 1 ELSE next_uuid
               /\ running' = Loop(t, pc)
        /\ UNCHANGED <<USERS_FILE, ADMIN_USERNAME, ADMIN_PASSWORD, started,
                       request, response, round, torn, wsVars>>

\* save_users(users) (users.py:123, 195, 237), first half:
\* open(USERS_FILE, "w") truncates the file (users.py:59)
task_write ==
    \E t \in Tasks :
        /\ tasks[t].pc = "write"
        /\ CanRun(t)
        /\ USERS_FILE' = <<>>
        /\ torn' = TRUE
        /\ tasks' = [tasks EXCEPT ![t].pc = "dump"]
        /\ running' = Loop(t, "dump")
        /\ UNCHANGED <<ADMIN_USERNAME, ADMIN_PASSWORD, started, next_uuid,
                       request, response, round, wsVars>>

\* second half: json.dump and the close of the file (users.py:60), and the
\* endpoint's answer
task_dump ==
    \E t \in Tasks :
        /\ tasks[t].pc = "dump"
        /\ CanRun(t)
        /\ USERS_FILE' = tasks[t].write
        /\ torn' = FALSE
        /\ round' = [round EXCEPT !.files = @ \cup {tasks[t].write}]
        /\ tasks' = [tasks EXCEPT ![t].pc = "done"]
        /\ running' = Loop(t, "done")
        /\ UNCHANGED <<ADMIN_USERNAME, ADMIN_PASSWORD, started, next_uuid,
                       request, response, wsVars>>

\* both answers have been sent
Finish ==
    /\ \A t \in Tasks : tasks[t].pc = "done"
    /\ tasks' = [t \in Tasks |-> IdleTask]
    /\ UNCHANGED <<USERS_FILE, ADMIN_USERNAME, ADMIN_PASSWORD, started, next_uuid,
                   request, response, running, round, torn, wsVars>>

\* the application under concurrent requests
NextTasks ==
    \/ initialize_admin_user
    \/ Reply
    \/ Submit
    \/ task_read
    \/ task_check
    \/ task_write
    \/ task_dump
    \/ Finish

\* with the default environment (no ADMIN_USERNAME, no ADMIN_PASSWORD)
InitTasks == Init /\ ADMIN_USERNAME = None /\ ADMIN_PASSWORD = None

SpecTasks == InitTasks /\ [][NextTasks]_vars

\* ------------------------------------------------------- password changes
\* patches that carry password fields: the current password absent, empty,
\* right or wrong, with or without a new password and another field
PasswordUpdates ==
    {[current_password |-> cp, new_password |-> np, display_name |-> dn,
      is_admin |-> None, is_pet |-> None, avatar_url |-> None] :
        cp \in {None, Some(<<>>), Some(p1), Some(p2)},
        np \in {None, Some(p2)},
        dn \in {None, Some("d2")}}

\* the accounts whose passwords are changed: created with password p1
PasswordCreates ==
    [username : {bob, cy}, password : {p1}, display_name : {"d1"},
     is_admin : BOOLEAN, is_pet : {FALSE}]

PasswordCalls ==
    {Call("store", "create", None, 0, Some(uc), None) : uc \in PasswordCreates}
    \cup {Call("store", "update", ru, id, None, Some(uu)) :
        ru \in RequestingUsers, id \in UserIds, uu \in PasswordUpdates}

\* create_user called for a new account
call_create_user_account ==
    /\ started
    /\ Idle
    /\ \E call \in PasswordCalls :
          /\ call.op = "create"
          /\ LET r == create_user(USERS_FILE, Val(call.user_create), call.actor,
                                  next_uuid)
             IN  Handled(call, r.file, 0, r.exc, TRUE)
    /\ UNCHANGED started

\* update_user called with a patch that carries password fields
call_update_user_password ==
    /\ started
    /\ Idle
    /\ \E call \in PasswordCalls :
          /\ call.op = "update"
          /\ LET r == update_user(USERS_FILE, call.user_id, Val(call.user_update),
                                  call.actor)
             IN  Handled(call, r.file, 0, r.exc, TRUE)
    /\ UNCHANGED started

NextPassword ==
    \/ initialize_admin_user
    \/ call_create_user_account
    \/ call_update_user_password
    \/ Reply

\* with ADMIN_USERNAME and ADMIN_PASSWORD set: the owner's password is p1
InitPassword == Init /\ ADMIN_PASSWORD # None

SpecPassword == InitPassword /\ [][NextPassword]_vars

\* ------------------------------------------------------------------ claims

\* ---------------------------------------------------------------- bootstrap
\* the environment at the first start: ADMIN_USERNAME unset or set, and
\* ADMIN_PASSWORD unset, empty, a plaintext or a bcrypt hash
BootEnvironments ==
    {<<u, p>> :
        u \in {None, Some(admin), Some(Admin), Some(bob)},
        p \in {None, Some(<<>>), Some(p1), Some(p2), Some(bcrypt_hash(p1))}}

\* the passwords someone logs in with
Passwords == {admin, p1, p2}

InitBoot ==
    /\ USERS_FILE = <<>>
    /\ \E env \in BootEnvironments :
          /\ ADMIN_USERNAME = env[1]
          /\ ADMIN_PASSWORD = env[2]
    /\ started = FALSE
    /\ next_uuid = 1
    /\ request = None
    /\ response = None
    /\ tasks = [t \in Tasks |-> IdleTask]
    /\ running = "none"
    /\ round = [n |-> 0, file |-> <<>>, files |-> {}]
    /\ torn = FALSE
    /\ InitConnections

\* verify_user called with a username and a password; the response carries
\* what it returned
call_verify_user ==
    /\ started
    /\ Idle
    /\ \E username \in Usernames, password \in Passwords :
          /\ request' = Some(Call("store", "verify", None, 0,
                                  Some([username |-> username, password |-> password]),
                                  None))
          /\ response' = Some([ret |-> verify_user(USERS_FILE, username, password)]
                              @@ Outcome(0, "", TRUE, USERS_FILE))
    /\ UNCHANGED <<USERS_FILE, ADMIN_USERNAME, ADMIN_PASSWORD, started, next_uuid,
                   taskVars, torn, wsVars>>

NextBoot ==
    \/ initialize_admin_user
    \/ call_verify_user
    \/ Reply

SpecBoot == InitBoot /\ [][NextBoot]_vars

\* ------------------------------------------------- a file written earlier
\* A users.json that the process finds at its start: written by an older
\* version (no is_owner key: get_users reads it as False) or edited by hand,
\* so the record with the owner username lacks is_owner or is_admin.
StoredRecord(id, username, is_admin, is_owner) ==
    [id |-> id, username |-> username, password_hash |-> bcrypt_hash(p1),
     display_name |-> "d1", is_admin |-> is_admin, is_owner |-> is_owner,
     is_pet |-> FALSE, avatar_url |-> None]

EarlierFiles ==
    {<<StoredRecord(1, username, is_admin, is_owner)>> \o rest :
        username \in {admin, Admin},
        is_admin \in BOOLEAN, is_owner \in BOOLEAN,
        rest \in {<<>>, <<StoredRecord(2, bob, FALSE, FALSE)>>}}

InitEarlier ==
    /\ USERS_FILE \in {file \in EarlierFiles :
                          ~(file[1].is_admin /\ file[1].is_owner)}
    /\ ADMIN_USERNAME = Some(Admin)
    /\ ADMIN_PASSWORD = Some(bcrypt_hash(p1))
    /\ started = FALSE
    /\ next_uuid = Len(USERS_FILE) + 1
    /\ request = None
    /\ response = None
    /\ tasks = [t \in Tasks |-> IdleTask]
    /\ running = "none"
    /\ round = [n |-> 0, file |-> <<>>, files |-> {}]
    /\ torn = FALSE
    /\ InitConnections

\* the users.py interface on a file written earlier
SpecEarlier == InitEarlier /\ [][NextStore]_vars


\* A users.json written while ADMIN_USERNAME named another user (the default
\* "admin"): its record of that user has is_owner stored as true, and the
\* environment names bob now.
RenamedFiles ==
    {<<StoredRecord(1, admin, TRUE, TRUE)>> \o rest :
        rest \in {<<>>, <<StoredRecord(2, bob, FALSE, FALSE)>>,
                  <<StoredRecord(2, Bob, TRUE, FALSE)>>}}

InitRenamed ==
    /\ USERS_FILE \in RenamedFiles
    /\ ADMIN_USERNAME = Some(bob)
    /\ ADMIN_PASSWORD = Some(bcrypt_hash(p1))
    /\ started = FALSE
    /\ next_uuid = Len(USERS_FILE) + 1
    /\ request = None
    /\ response = None
    /\ tasks = [t \in Tasks |-> IdleTask]
    /\ running = "none"
    /\ round = [n |-> 0, file |-> <<>>, files |-> {}]
    /\ torn = FALSE
    /\ InitConnections

\* the users.py interface after the owner name has been changed
SpecRenamed == InitRenamed /\ [][NextStore]_vars

\* --------------------------------------------------------- I/O failures
\* the store function a call names, on the file content
store_call(file, call, uuid) ==
    CASE call.op = "create" ->
            create_user(file, Val(call.user_create), call.actor, uuid)
      [] call.op = "update" ->
            update_user(file, call.user_id, Val(call.user_update), call.actor)
      [] call.op = "delete" ->
            delete_user(file, call.user_id, call.actor)

\* the call gets as far as save_users (users.py:123, 195, 237)
reaches_save(call, r) ==
    /\ r.exc = ""
    /\ IF call.op = "delete" THEN r.ret ELSE r.ret # None

\* What save_users leaves on disk when writing users fails with OSError: the
\* file as it was if open(USERS_FILE, "w") fails; once open() has truncated
\* the file, the records json.dump wrote before the failure, and no complete
\* JSON document.
save_users_failure(file, users) ==
    {[file |-> file, torn |-> FALSE]}
    \cup {[file |-> SubSeq(users, 1, k), torn |-> TRUE] : k \in 0..Len(users)}

\* a store call whose save_users fails: the OSError leaves the function
save_users_fails ==
    /\ started
    /\ Idle
    /\ ~torn
    /\ \E call \in StoreCalls :
          LET r == store_call(USERS_FILE, call, next_uuid) IN
          /\ reaches_save(call, r)
          /\ call.op = "create" => next_uuid <= MaxIds
          /\ \E left \in save_users_failure(USERS_FILE, r.file) :
                /\ USERS_FILE' = left.file
                /\ torn' = left.torn
          /\ request' = Some(call)
          /\ response' = Some(Outcome(0, "OSError", TRUE, USERS_FILE))
          /\ next_uuid' = IF call.op = "create" THEN next_uuid + 1 ELSE next_uuid
    /\ UNCHANGED <<ADMIN_USERNAME, ADMIN_PASSWORD, started, taskVars, wsVars>>

\* a store call on a file that is cut short: json.load raises in get_users,
\* the first statement of create_user, update_user and delete_user
get_users_fails ==
    /\ started
    /\ Idle
    /\ torn
    /\ \E call \in StoreCalls :
          /\ request' = Some(call)
          /\ response' = Some(Outcome(0, "JSONDecodeError", TRUE, USERS_FILE))
    /\ UNCHANGED <<USERS_FILE, ADMIN_USERNAME, ADMIN_PASSWORD, started, next_uuid,
                   taskVars, torn, wsVars>>

\* the users.py interface on a disk whose writes can fail
NextIO ==
    \/ initialize_admin_user
    \/ call_create_user
    \/ call_update_user
    \/ call_delete_user
    \/ save_users_fails
    \/ get_users_fails
    \/ Reply

SpecIO == InitTasks /\ [][NextIO]_vars

\* ------------------------------------------------- ConnectionManager steps
\* every order list(self.active_connections[group]) can give a set
Orderings(set) ==
    {seq \in [1..Cardinality(set) -> set] :
        \A i, j \in 1..Cardinality(set) : i # j => seq[i] # seq[j]}

\* what connection.send_text raises on a transport that has failed
TransportErrors == {"WebSocketDisconnect", "RuntimeError", "ConnectionError"}

\* plausible slip: only the disconnect exception is caught
broadcast_catches_DisconnectOnly(exc) == exc = "WebSocketDisconnect"

\* the except clauses around send_text (main.py:411-423): WebSocketDisconnect,
\* RuntimeError, and Exception, the base class of every other transport error
broadcast_catches(exc) ==
    \/ exc = "WebSocketDisconnect"
    \/ exc = "RuntimeError"
    \/ exc \in TransportErrors

\* plausible slip: only the group named in the call is cleaned (its default)
disconnect_NamedGroupOnly(connections, gone) ==
    [group \in Groups |->
        IF group = "all" THEN connections[group] \ gone ELSE connections[group]]

\* disconnect (main.py:382-383): discard from every group
disconnect(connections, gone) ==
    [group \in Groups |-> connections[group] \ gone]

\* plausible slip: connect adds to the group without taking the lock
lock_held_Never(method) == FALSE

\* The statements that change a group's set, and the lock: connect adds inside
\* "async with self._connection_lock" (main.py:373-375); disconnect discards
\* with no lock taken (main.py:382-383), and so does the pruning at the end of
\* broadcast, which calls disconnect (main.py:425-426).
lock_held(method) == method = "connect"

\* connect, up to the end of await websocket.accept() (main.py:371)
connect_accept ==
    \E ws \in WebSockets, group \in Groups :
        /\ websockets[ws].pc = "new"
        /\ websockets' = [websockets EXCEPT ![ws].pc = "accepted",
                                            ![ws].group = group]
        /\ UNCHANGED <<userVars, taskVars, torn, epVars, dispVars, active_connections, bcast,
                       mutation, overlap, connection_lock>>

\* plausible slip: the lock is acquired and never released
release_Missing(lock) == lock

\* leaving "async with self._connection_lock" (main.py:373-375) releases it
release(lock) == None

\* connect, the rest: "async with" waits until the lock is free and takes it,
\* the add follows with no await in the block, and the lock is released
\* (main.py:373-375)
connect_add ==
    \E ws \in WebSockets :
        /\ websockets[ws].pc = "accepted"
        /\ lock_held("connect") => connection_lock = None
        /\ connection_lock' = IF lock_held("connect") THEN release(Some(ws))
                              ELSE connection_lock
        /\ active_connections' =
              [active_connections EXCEPT ![websockets[ws].group] = @ \cup {ws}]
        /\ websockets' = [websockets EXCEPT ![ws].pc = "connected"]
        /\ mutation' = [by |-> "connect", locked |-> lock_held("connect")]
        /\ UNCHANGED <<userVars, taskVars, torn, epVars, dispVars, bcast, overlap>>

\* the client goes away, or the network does
transport_closes ==
    \E ws \in WebSockets :
        /\ websockets[ws].pc \in {"accepted", "connected"}
        /\ websockets[ws].transport = "open"
        /\ websockets' = [websockets EXCEPT ![ws].transport = "closed"]
        /\ UNCHANGED <<userVars, taskVars, torn, epVars, dispVars, active_connections, bcast,
                       mutation, overlap, connection_lock>>

\* the serving loop of websocket_endpoint ends on a failed receive or send,
\* and its finally clause disconnects (main.py:336-351)
ws_disconnect ==
    \E ws \in WebSockets :
        /\ websockets[ws].pc = "connected"
        /\ websockets[ws].transport = "closed"
        /\ active_connections' = disconnect(active_connections, {ws})
        /\ websockets' = [websockets EXCEPT ![ws].pc = "closed"]
        /\ mutation' = [by |-> "disconnect", locked |-> lock_held("disconnect")]
        /\ UNCHANGED <<userVars, taskVars, torn, epVars, dispVars, bcast, overlap,
                       connection_lock>>

\* plausible slip: a group the registry does not know falls back to "all"
broadcast_members_DefaultAll(connections, group) ==
    IF group \notin DOMAIN connections THEN Some(connections["all"])
    ELSE Some(connections[group])

\* the members broadcast sends to: none at all when the group is not a key of
\* active_connections (main.py:398-400), else the group's set (main.py:403)
broadcast_members(connections, group) ==
    IF group \notin DOMAIN connections THEN None
    ELSE Some(connections[group])

\* broadcast up to its loop: the unknown group returns at once, a known one
\* is copied into a list (main.py:398-403)
broadcast_begin ==
    /\ bcast.pc = "idle"
    /\ \E group \in Groups \cup {"unknown"} :
          LET members == broadcast_members(active_connections, group) IN
          IF members = None
          THEN bcast' = [bcast EXCEPT !.pc = "returned", !.group = group]
          ELSE \E connections \in Orderings(Val(members)) :
                  bcast' = [bcast EXCEPT !.pc = "sending", !.group = group,
                                         !.connections = connections, !.i = 1]
    /\ UNCHANGED <<userVars, taskVars, torn, epVars, dispVars, active_connections,
                   websockets, mutation, overlap, connection_lock>>

\* plausible slip: a connection that has left the group since is skipped
sends_to_MembersOnly(connection, members) == connection \in members

\* the loop sends to every element of the list it copied, whatever the
\* group's set holds by then (main.py:407-409)
sends_to(connection, members) == TRUE

\* one turn of the loop: await connection.send_text(message) and its except
\* clauses (main.py:407-423)
broadcast_send ==
    /\ bcast.pc = "sending"
    /\ bcast.i <= Len(bcast.connections)
    /\ LET connection == bcast.connections[bcast.i] IN
       IF ~sends_to(connection, active_connections[bcast.group])
       THEN bcast' = [bcast EXCEPT !.i = @ + 1]
       ELSE IF websockets[connection].transport = "open"
       THEN bcast' = [bcast EXCEPT !.received[connection] = @ + 1, !.i = @ + 1]
       ELSE \E exc \in TransportErrors :
               IF broadcast_catches(exc)
               THEN bcast' = [bcast EXCEPT !.disconnected = @ \cup {connection},
                                           !.i = @ + 1]
               ELSE bcast' = [bcast EXCEPT !.raised = exc, !.pc = "returned"]
    /\ UNCHANGED <<userVars, taskVars, torn, epVars, dispVars, active_connections,
                   websockets, mutation, overlap, connection_lock>>

\* after the loop: disconnect every connection that failed, and return
\* (main.py:425-428); no await in between
broadcast_end ==
    /\ bcast.pc = "sending"
    /\ bcast.i > Len(bcast.connections)
    /\ active_connections' = disconnect(active_connections, bcast.disconnected)
    /\ mutation' = IF bcast.disconnected = {} THEN mutation
                   ELSE [by |-> "broadcast", locked |-> lock_held("broadcast")]
    /\ bcast' = [bcast EXCEPT !.pc = "returned"]
    /\ UNCHANGED <<userVars, taskVars, torn, epVars, dispVars, websockets, overlap,
                   connection_lock>>

\* the caller goes on; the next broadcast can start
broadcast_returned ==
    /\ bcast.pc = "returned"
    /\ bcast' = NoBroadcast
    /\ UNCHANGED <<userVars, taskVars, torn, epVars, dispVars, active_connections,
                   websockets, mutation, overlap, connection_lock>>

\* one ConnectionManager, its clients and one broadcast at a time
NextBroadcast ==
    \/ connect_accept
    \/ connect_add
    \/ transport_closes
    \/ ws_disconnect
    \/ broadcast_begin
    \/ broadcast_send
    \/ broadcast_end
    \/ broadcast_returned

SpecBroadcast == InitTasks /\ [][NextBroadcast]_vars

\* the event loop resumes a coroutine that can go on: a connect whose accept
\* has ended enters "async with" once the lock is free, a broadcast goes on
\* with its loop
SpecBroadcastFair ==
    /\ SpecBroadcast
    /\ WF_vars(connect_add)
    /\ WF_vars(broadcast_send)
    /\ WF_vars(broadcast_end)


\* ------------------------------------------------ two broadcasts at a time
\* broadcast is a coroutine that awaits in its loop, so a second call can
\* begin, send and end between two sends of the first; both work on the same
\* active_connections.

\* the second call up to its loop (main.py:398-403), begun while the first is
\* in its loop
overlap_begin ==
    /\ bcast.pc = "sending"
    /\ overlap.pc = "idle"
    /\ \E group \in Groups :
          \E connections \in Orderings(Val(broadcast_members(active_connections, group))) :
              overlap' = [overlap EXCEPT !.pc = "sending", !.group = group,
                                         !.connections = connections, !.i = 1]
    /\ UNCHANGED <<userVars, taskVars, torn, epVars, dispVars, active_connections,
                   websockets, mutation, bcast, connection_lock>>

\* one turn of the second call's loop (main.py:407-423)
overlap_send ==
    /\ overlap.pc = "sending"
    /\ overlap.i <= Len(overlap.connections)
    /\ LET connection == overlap.connections[overlap.i] IN
       IF ~sends_to(connection, active_connections[overlap.group])
       THEN overlap' = [overlap EXCEPT !.i = @ + 1]
       ELSE IF websockets[connection].transport = "open"
       THEN overlap' = [overlap EXCEPT !.received[connection] = @ + 1, !.i = @ + 1]
       ELSE \E exc \in TransportErrors :
               IF broadcast_catches(exc)
               THEN overlap' = [overlap EXCEPT !.disconnected = @ \cup {connection},
                                               !.i = @ + 1]
               ELSE overlap' = [overlap EXCEPT !.raised = exc, !.pc = "returned"]
    /\ UNCHANGED <<userVars, taskVars, torn, epVars, dispVars, active_connections,
                   websockets, mutation, bcast, connection_lock>>

\* the second call after its loop (main.py:425-428)
overlap_end ==
    /\ overlap.pc = "sending"
    /\ overlap.i > Len(overlap.connections)
    /\ active_connections' = disconnect(active_connections, overlap.disconnected)
    /\ mutation' = IF overlap.disconnected = {} THEN mutation
                   ELSE [by |-> "broadcast", locked |-> lock_held("broadcast")]
    /\ overlap' = [overlap EXCEPT !.pc = "returned"]
    /\ UNCHANGED <<userVars, taskVars, torn, epVars, dispVars, websockets, bcast,
                   connection_lock>>

\* the second call's caller goes on
overlap_returned ==
    /\ overlap.pc = "returned"
    /\ overlap' = NoBroadcast
    /\ UNCHANGED <<userVars, taskVars, torn, epVars, dispVars, active_connections,
                   websockets, mutation, bcast, connection_lock>>

\* one ConnectionManager, its clients and two broadcasts at a time
NextOverlap ==
    \/ NextBroadcast
    \/ overlap_begin
    \/ overlap_send
    \/ overlap_end
    \/ overlap_returned

SpecOverlap == InitTasks /\ [][NextOverlap]_vars

\* ----------------------------------------------------- websocket_endpoint
\* the frames the endpoint sends
TextFrame(data) == [kind |-> "text", data |-> data]
JsonFrame(type) == [kind |-> "json", data |-> type]

\* the text frames a client sends
ClientTexts == {"ping", "subscribe", "hello"}

\* plausible slip: text the endpoint does not know is echoed back
reply_to_EchoUnknown(data) ==
    CASE data = "ping" -> <<TextFrame("pong")>>
      [] data = "subscribe" -> <<JsonFrame("subscribed")>>
      [] OTHER -> <<TextFrame(data)>>

\* the frames the serving loop sends for a received text (main.py:310-322)
reply_to(data) ==
    CASE data = "ping" -> <<TextFrame("pong")>>
      [] data = "subscribe" -> <<JsonFrame("subscribed")>>
      [] OTHER -> <<>>

\* plausible slip: the idle timeout ends the loop
after_keepalive_Break(sent) == "finally"

\* the loop after the keepalive send of a timeout (main.py:324-334): it goes
\* on waiting, or breaks when the send raised
after_keepalive(sent) == IF sent THEN "wait" ELSE "finally"

\* plausible slip: the failed confirmation returns without disconnect
disconnect_calls_ConfirmLeaks(exit) == IF exit = "confirm" THEN 0 ELSE 1

\* The calls of manager.disconnect on the way out: one in the except clause of
\* the confirmation send, which returns before the try statement of the loop
\* (main.py:295-298); one in the finally clause of the loop (main.py:350-351).
disconnect_calls(exit) ==
    CASE exit = "confirm" -> 1
      [] exit = "loop" -> 1

\* the endpoint call for ws leaves: its manager after the disconnect calls
leave(ws, exit) ==
    /\ managers' = [managers EXCEPT ![ws] =
                      IF disconnect_calls(exit) > 0 THEN disconnect(@, {ws}) ELSE @]
    /\ serving' = [serving EXCEPT ![ws].pc = "ended",
                                  ![ws].disconnects = @ + disconnect_calls(exit)]

\* manager = ConnectionManager() and, in connect, await websocket.accept()
\* (main.py:282-285, 371): the handshake fails when the client has gone, and
\* the exception leaves the endpoint
ep_accept(ws) ==
    /\ serving[ws].pc = "new"
    /\ managers' = [managers EXCEPT ![ws] = [group \in Groups |-> {}]]
    /\ serving' = [serving EXCEPT ![ws].pc =
                      IF serving[ws].transport = "open" THEN "accepted" ELSE "refused"]
    /\ UNCHANGED <<userVars, taskVars, torn, cmVars, dispVars>>

\* the rest of connect: the add to "all" of the manager of this call
\* (main.py:373-375)
ep_register(ws) ==
    /\ serving[ws].pc = "accepted"
    /\ managers' = [managers EXCEPT ![ws]["all"] = @ \cup {ws}]
    /\ serving' = [serving EXCEPT ![ws].pc = "confirm"]
    /\ UNCHANGED <<userVars, taskVars, torn, cmVars, dispVars>>

\* the connection_established frame (main.py:288-298)
ep_confirm(ws) ==
    /\ serving[ws].pc = "confirm"
    /\ IF serving[ws].transport = "open"
       THEN /\ serving' = [serving EXCEPT
                              ![ws].pc = "wait",
                              ![ws].event = "connect",
                              ![ws].out = <<JsonFrame("connection_established")>>]
            /\ UNCHANGED managers
       ELSE leave(ws, "confirm")
    /\ UNCHANGED <<userVars, taskVars, torn, cmVars, dispVars>>

\* await asyncio.wait_for(websocket.receive_text(), timeout=60.0)
\* (main.py:304-307): a text, the timeout, or the exception of a transport
\* that has gone, on which the loop breaks (main.py:336-342)
ep_receive(ws) ==
    /\ serving[ws].pc = "wait"
    /\ \/ /\ serving[ws].transport = "open"
          /\ \E data \in ClientTexts :
                serving' = [serving EXCEPT ![ws].pc = "handle",
                                           ![ws].event = data,
                                           ![ws].out = <<>>]
       \/ serving' = [serving EXCEPT ![ws].pc = "keepalive",
                                     ![ws].event = "timeout",
                                     ![ws].out = <<>>]
       \/ /\ serving[ws].transport = "closed"
          /\ serving' = [serving EXCEPT ![ws].pc = "finally",
                                        ![ws].event = "disconnect",
                                        ![ws].out = <<>>]
    /\ UNCHANGED <<userVars, taskVars, torn, cmVars, dispVars, managers>>

\* the reply to the text (main.py:310-322); a send that raises breaks the loop
ep_handle(ws) ==
    /\ serving[ws].pc = "handle"
    /\ LET frames == reply_to(serving[ws].event) IN
       IF frames = <<>> \/ serving[ws].transport = "open"
       THEN serving' = [serving EXCEPT ![ws].pc = "wait", ![ws].out = frames]
       ELSE serving' = [serving EXCEPT ![ws].pc = "finally"]
    /\ UNCHANGED <<userVars, taskVars, torn, cmVars, dispVars, managers>>

\* the keepalive frame of a timeout (main.py:324-334)
ep_keepalive(ws) ==
    /\ serving[ws].pc = "keepalive"
    /\ LET sent == serving[ws].transport = "open" IN
       serving' = [serving EXCEPT
                     ![ws].pc = after_keepalive(sent),
                     ![ws].out = IF sent THEN <<JsonFrame("keepalive")>> ELSE <<>>]
    /\ UNCHANGED <<userVars, taskVars, torn, cmVars, dispVars, managers>>

\* the finally clause of the loop (main.py:350-352)
ep_finally(ws) ==
    /\ serving[ws].pc = "finally"
    /\ leave(ws, "loop")
    /\ UNCHANGED <<userVars, taskVars, torn, cmVars, dispVars>>

\* the client goes away, or the network does
ep_transport_closes(ws) ==
    /\ serving[ws].pc \notin {"refused", "ended"}
    /\ serving[ws].transport = "open"
    /\ serving' = [serving EXCEPT ![ws].transport = "closed"]
    /\ UNCHANGED <<userVars, taskVars, torn, cmVars, dispVars, managers>>

\* one call of websocket_endpoint, from the handshake to its return
websocket_endpoint(ws) ==
    \/ ep_accept(ws)
    \/ ep_register(ws)
    \/ ep_confirm(ws)
    \/ ep_receive(ws)
    \/ ep_handle(ws)
    \/ ep_keepalive(ws)
    \/ ep_finally(ws)

\* the clients of /ws and the endpoint calls that serve them
NextEndpoint ==
    \E ws \in WebSockets :
        \/ websocket_endpoint(ws)
        \/ ep_transport_closes(ws)

SpecEndpoint == InitTasks /\ [][NextEndpoint]_vars

\* every endpoint call is run on by the event loop: each of its awaits ends,
\* with a frame, by the 60 s timeout or with an exception
SpecEndpointFair ==
    SpecEndpoint /\ \A ws \in WebSockets : WF_vars(websocket_endpoint(ws))

\* ------------------------------------------------------ update dispatcher
\* The names broadcast_fronting_update, broadcast_mental_state_update and
\* broadcast_frontend_update are called in main.py (lines 479, 581, 602, 647,
\* 1050) and are neither defined in it nor imported into it (main.py:1-41):
\* the call raises NameError before anything is sent.
broadcast_fronting_update(fronters_data) == [exc |-> "NameError", events |-> <<>>]
broadcast_mental_state_update(state_data) == [exc |-> "NameError", events |-> <<>>]

\* the front-switch endpoints and their request bodies; None is a body whose
\* member list is not a list, or whose member_id is missing
SwitchEndpoints == {"switch", "switch_front", "multi_switch"}
FrontLists == {<<"m1">>, <<"m1", "m2">>}
SwitchBodies(endpoint) ==
    {None} \cup {Some(l) : l \in IF endpoint = "switch_front" THEN {<<"m1">>, <<"m2">>}
                                 ELSE FrontLists}

\* the answer to a body the endpoint refuses: switch_single_front lets its
\* HTTPException through (main.py:594-595, 606-607); in switch_front and
\* switch_multiple_fronters "except Exception" turns it into 500
\* (main.py:574-575, 584-585, 625-626, 656-657)
refused_status(endpoint) == IF endpoint = "switch_front" THEN 400 ELSE 500

\* a front-switch request arrives: the body is read and checked
switch_arrive(r) ==
    /\ switches[r].pc = "idle"
    /\ \E endpoint \in SwitchEndpoints :
          \E body \in SwitchBodies(endpoint) :
             switches' = [switches EXCEPT ![r] =
                IF body = None
                THEN [NoSwitch EXCEPT !.pc = "done", !.endpoint = endpoint,
                                      !.status = refused_status(endpoint)]
                ELSE [NoSwitch EXCEPT !.pc = "set", !.endpoint = endpoint,
                                      !.body = Val(body)]]
    /\ UNCHANGED <<userVars, taskVars, torn, cmVars, epVars, fronters, mental_state,
                   member_status, member_tags>>

\* await set_front(member_ids) (main.py:577, 597, 644): PluralKit takes the
\* switch, or the call raises and the request is answered 500
switch_set(r) ==
    /\ switches[r].pc = "set"
    /\ \/ /\ fronters' = switches[r].body
          /\ switches' = [switches EXCEPT ![r].pc = "fetch", ![r].applied = TRUE]
       \/ /\ switches' = [switches EXCEPT ![r].pc = "done", ![r].status = 500]
          /\ UNCHANGED fronters
    /\ UNCHANGED <<userVars, taskVars, torn, cmVars, epVars, mental_state,
                   member_status, member_tags>>

\* fronters_data = await get_fronters() (main.py:580, 601, 646)
switch_fetch(r) ==
    /\ switches[r].pc = "fetch"
    /\ \/ switches' = [switches EXCEPT ![r].pc = "broadcast",
                                       ![r].fetched = Some(fronters)]
       \/ switches' = [switches EXCEPT ![r].pc = "done", ![r].status = 500]
    /\ UNCHANGED <<userVars, taskVars, torn, cmVars, epVars, fronters, mental_state,
                   member_status, member_tags>>

\* await broadcast_fronting_update(fronters_data) (main.py:581, 602, 647) and
\* the answer: "except Exception" answers 500 for the exception of the call
switch_broadcast(r) ==
    /\ switches[r].pc = "broadcast"
    /\ LET sent == broadcast_fronting_update(Val(switches[r].fetched)) IN
       switches' = [switches EXCEPT ![r].pc = "done",
                                    ![r].events = sent.events,
                                    ![r].status = IF sent.exc # "" THEN 500 ELSE 200]
    /\ UNCHANGED <<userVars, taskVars, torn, cmVars, epVars, fronters, mental_state,
                   member_status, member_tags>>

\* the answers have been sent
switch_done ==
    /\ \A r \in Requests : switches[r].pc = "done"
    /\ switches' = [r \in Requests |-> NoSwitch]
    /\ UNCHANGED <<userVars, taskVars, torn, cmVars, epVars, fronters, mental_state,
                   member_status, member_tags>>

\* the levels, status texts ("" is the missing text, "long" one of more than
\* 100 characters) and tags of the requests
Levels == {"safe", "unstable"}
StatusTexts == {"", "busy", "long"}
Tags == {"host", "pet"}

\* a status or tag request by an authenticated user, and its answer
StatusCall(op, is_admin, member, arg) ==
    [layer |-> "http", op |-> op, is_admin |-> is_admin, member |-> member, arg |-> arg]

StatusAnswer(status, mutated, events) ==
    [status |-> status, mutated |-> mutated, events |-> events]

\* POST /api/mental-state (main.py:465-483): the file is written, then the
\* call of the broadcast raises and "except Exception" answers 500
update_mental_state ==
    /\ Idle
    /\ \E is_admin \in BOOLEAN, level \in Levels :
          LET sent == broadcast_mental_state_update(level) IN
          /\ request' = Some(StatusCall("mental_state", is_admin, "", level))
          /\ IF ~is_admin
             THEN /\ response' = Some(StatusAnswer(403, FALSE, <<>>))
                  /\ UNCHANGED mental_state
             ELSE /\ mental_state' = level
                  /\ response' = Some(StatusAnswer(IF sent.exc # "" THEN 500 ELSE 200,
                                                   TRUE, sent.events))
    /\ UNCHANGED <<USERS_FILE, ADMIN_USERNAME, ADMIN_PASSWORD, started, next_uuid,
                   taskVars, torn, cmVars, epVars, fronters, switches, member_status,
                   member_tags>>

\* POST /api/members/{member_identifier}/status (main.py:1082-1113): no
\* broadcast is called
set_member_status_endpoint ==
    /\ Idle
    /\ \E is_admin \in BOOLEAN, member \in Members, text \in StatusTexts :
          /\ request' = Some(StatusCall("set_status", is_admin, member, text))
          /\ IF ~is_admin
             THEN /\ response' = Some(StatusAnswer(403, FALSE, <<>>))
                  /\ UNCHANGED member_status
             ELSE IF text = "" \/ text = "long"
             THEN /\ response' = Some(StatusAnswer(400, FALSE, <<>>))
                  /\ UNCHANGED member_status
             ELSE /\ member_status' = [member_status EXCEPT ![member] = Some(text)]
                  /\ response' = Some(StatusAnswer(200, TRUE, <<>>))
    /\ UNCHANGED <<USERS_FILE, ADMIN_USERNAME, ADMIN_PASSWORD, started, next_uuid,
                   taskVars, torn, cmVars, epVars, fronters, switches, mental_state,
                   member_tags>>

\* DELETE /api/members/{member_identifier}/status (main.py:1115-1138): no
\* broadcast is called
clear_member_status_endpoint ==
    /\ Idle
    /\ \E is_admin \in BOOLEAN, member \in Members :
          /\ request' = Some(StatusCall("clear_status", is_admin, member, ""))
          /\ IF ~is_admin
             THEN /\ response' = Some(StatusAnswer(403, FALSE, <<>>))
                  /\ UNCHANGED member_status
             ELSE /\ member_status' = [member_status EXCEPT ![member] = None]
                  /\ response' = Some(StatusAnswer(200, member_status[member] # None,
                                                   <<>>))
    /\ UNCHANGED <<USERS_FILE, ADMIN_USERNAME, ADMIN_PASSWORD, started, next_uuid,
                   taskVars, torn, cmVars, epVars, fronters, switches, mental_state,
                   member_tags>>

\* POST /api/member-tags/{member_identifier}/add and DELETE
\* /api/member-tags/{member_identifier}/{tag} (main.py:709-776): no broadcast
\* is called
member_tag_endpoint ==
    /\ Idle
    /\ \E op \in {"add_tag", "remove_tag"}, is_admin \in BOOLEAN,
          member \in Members, tag \in Tags :
          LET had == tag \in member_tags[member] IN
          /\ request' = Some(StatusCall(op, is_admin, member, tag))
          /\ IF ~is_admin
             THEN /\ response' = Some(StatusAnswer(403, FALSE, <<>>))
                  /\ UNCHANGED member_tags
             ELSE IF op = "add_tag"
             THEN /\ member_tags' = [member_tags EXCEPT ![member] = @ \cup {tag}]
                  /\ response' = Some(StatusAnswer(200, ~had, <<>>))
             ELSE /\ member_tags' = [member_tags EXCEPT ![member] = @ \ {tag}]
                  /\ response' = Some(StatusAnswer(IF had THEN 200 ELSE 404, had, <<>>))
    /\ UNCHANGED <<USERS_FILE, ADMIN_USERNAME, ADMIN_PASSWORD, started, next_uuid,
                   taskVars, torn, cmVars, epVars, fronters, switches, mental_state,
                   member_status>>

\* two clients of /ws are connected or not when the requests arrive
Connected == [NotServing EXCEPT !.pc = "wait", !.event = "connect",
                                !.out = <<JsonFrame("connection_established")>>]

InitDispatch ==
    /\ USERS_FILE = <<>>
    /\ ADMIN_USERNAME = None
    /\ ADMIN_PASSWORD = None
    /\ started = FALSE
    /\ next_uuid = 1
    /\ request = None
    /\ response = None
    /\ tasks = [t \in Tasks |-> IdleTask]
    /\ running = "none"
    /\ round = [n |-> 0, file |-> <<>>, files |-> {}]
    /\ torn = FALSE
    /\ active_connections = [group \in Groups |-> {}]
    /\ websockets = [ws \in WebSockets |-> NewWebSocket]
    /\ bcast = NoBroadcast
    /\ mutation = [by |-> "none", locked |-> FALSE]
    /\ overlap = NoBroadcast
    /\ connection_lock = None
    /\ \E live \in SUBSET WebSockets :
          /\ serving = [ws \in WebSockets |->
                          IF ws \in live THEN Connected ELSE NotServing]
          /\ managers = [ws \in WebSockets |->
                          [group \in Groups |->
                             IF ws \in live /\ group = "all" THEN {ws} ELSE {}]]
    /\ fronters = <<>>
    /\ switches = [r \in Requests |-> NoSwitch]
    /\ mental_state = "safe"
    /\ member_status = [m \in Members |-> None]
    /\ member_tags = [m \in Members |-> {}]

\* the front-switch requests, which run side by side
NextSwitch ==
    \/ \E r \in Requests :
          \/ switch_arrive(r)
          \/ switch_set(r)
          \/ switch_fetch(r)
          \/ switch_broadcast(r)
    \/ switch_done

SpecSwitch == InitDispatch /\ [][NextSwitch]_vars

\* the status and tag requests, one at a time
NextStatus ==
    \/ update_mental_state
    \/ set_member_status_endpoint
    \/ clear_member_status_endpoint
    \/ member_tag_endpoint
    \/ Reply

SpecStatus == InitDispatch /\ [][NextStatus]_vars

\* ------------------------------------------------------------------ claims
HandledState == request # None /\ response # None
req == Val(request)
res == Val(response)

\* the username equals the configured owner username, ignoring case
ConfiguredOwner(username) == lower(username) = lower(get_owner_username)

IndexOfId(file, user_id) ==
    IF \E i \in DOMAIN file : file[i].id = user_id
    THEN CHOOSE i \in DOMAIN file : file[i].id = user_id
    ELSE 0

\* the call in flight is op on the record that carries the owner username
OnOwnerRecord(op) ==
    /\ HandledState
    /\ req.op = op
    /\ IndexOfId(res.before, req.user_id) # 0
    /\ ConfiguredOwner(res.before[IndexOfId(res.before, req.user_id)].username)

\* C1: every persisted record whose username is the configured owner username,
\* ignoring case, has is_owner and is_admin set, whatever flags were supplied.
C1_OwnerRecordFlags ==
    \A i \in DOMAIN USERS_FILE :
        ConfiguredOwner(USERS_FILE[i].username)
            => USERS_FILE[i].is_owner /\ USERS_FILE[i].is_admin

\* an update of the owner's record that supplies flags has been written
C1_Witness ==
    /\ OnOwnerRecord("update")
    /\ res.exc = ""
    /\ Val(req.user_update).is_admin = Some(TRUE)
    /\ Val(req.user_update).is_pet = Some(TRUE)
    /\ USERS_FILE # res.before

\* C2: at most one persisted record has is_owner, and only a record with the
\* configured owner username has it.
C2_SingleOwner ==
    /\ Cardinality({i \in DOMAIN USERS_FILE : USERS_FILE[i].is_owner}) <= 1
    /\ \A i \in DOMAIN USERS_FILE :
          USERS_FILE[i].is_owner => ConfiguredOwner(USERS_FILE[i].username)

\* a second record has been created with is_admin requested
C2_Witness ==
    /\ HandledState
    /\ req.op = "create"
    /\ res.exc = ""
    /\ Val(req.user_create).is_admin
    /\ Len(USERS_FILE) = 2
    /\ Len(res.before) = 1

\* C3: a call that starts with the owner record in the store ends with a
\* record of the same id in the store, with is_admin set.
C3_OwnerRecordKept ==
    HandledState =>
        \A i \in DOMAIN res.before :
            ConfiguredOwner(res.before[i].username) =>
                \E j \in DOMAIN USERS_FILE :
                    /\ USERS_FILE[j].id = res.before[i].id
                    /\ USERS_FILE[j].username = res.before[i].username
                    /\ USERS_FILE[j].is_admin

\* a delete of the owner's id has been handled
C3_Witness == OnOwnerRecord("delete") /\ req.actor # None

\* C4: an update that sets is_admin = false on the owner's record raises
\* PermissionError and leaves the file as it was.
C4_OwnerAdminRevokeDenied ==
    OnOwnerRecord("update") /\ Val(req.user_update).is_admin = Some(FALSE)
        => res.exc = "PermissionError" /\ USERS_FILE = res.before

\* such an update, carrying other changes too, has been handled
C4_Witness ==
    /\ OnOwnerRecord("update")
    /\ Val(req.user_update).is_admin = Some(FALSE)
    /\ Val(req.user_update).display_name # None
    /\ Val(req.user_update).is_pet # None
    /\ res.exc = "PermissionError"

\* C5: delete_user on the owner's id raises PermissionError, with or without
\* a requesting user, and leaves the file as it was.
C5_OwnerDeleteDenied ==
    OnOwnerRecord("delete")
        => res.exc = "PermissionError" /\ USERS_FILE = res.before

\* the owner's id has been the target of a delete without a requesting user
C5_Witness ==
    /\ OnOwnerRecord("delete")
    /\ req.actor = None
    /\ res.exc = "PermissionError"

\* C8: no two persisted records have usernames equal ignoring case, and a
\* create whose username matches an existing one ignoring case raises
\* ValueError (the conflict error) and leaves the file as it was.
C8_UsernamesUnique ==
    /\ \A i, j \in DOMAIN USERS_FILE :
          lower(USERS_FILE[i].username) = lower(USERS_FILE[j].username) => i = j
    /\ (/\ HandledState
        /\ req.layer = "store"
        /\ req.op = "create"
        /\ \E i \in DOMAIN res.before :
              lower(res.before[i].username) = lower(Val(req.user_create).username))
       => res.exc = "ValueError" /\ USERS_FILE = res.before

\* a create has been refused for a username that differs from an existing one
\* in case only
C8_Witness ==
    /\ HandledState
    /\ req.op = "create"
    /\ res.exc = "ValueError"
    /\ \E i \in DOMAIN res.before :
          /\ lower(res.before[i].username) = lower(Val(req.user_create).username)
          /\ res.before[i].username # Val(req.user_create).username
          /\ ~ConfiguredOwner(res.before[i].username)

\* C9: a create request through POST /api/users whose username is the
\* configured owner username is denied with a permission error (the forbidden
\* outcome) and adds no record.
C9_OwnerCreateForbidden ==
    (/\ HandledState
     /\ req.layer = "http"
     /\ req.op = "create"
     /\ ConfiguredOwner(Val(req.user_create).username))
    => /\ res.status = 403 \/ res.exc = "PermissionError"
       /\ USERS_FILE = res.before

\* C10: after an update request by an actor with is_admin = false, every
\* record has the is_admin and is_pet flags it had before.
C10_NonAdminKeepsFlags ==
    (/\ HandledState
     /\ req.layer = "http"
     /\ req.op = "update"
     /\ ~Val(req.actor).is_admin)
    => \A i \in DOMAIN res.before :
          \E j \in DOMAIN USERS_FILE :
              /\ USERS_FILE[j].id = res.before[i].id
              /\ USERS_FILE[j].is_admin = res.before[i].is_admin
              /\ USERS_FILE[j].is_pet = res.before[i].is_pet

BothDone == \A t \in Tasks : tasks[t].pc = "done"
call1 == Val(tasks["t1"].call)
call2 == Val(tasks["t2"].call)

\* the two requests create users whose usernames are equal ignoring case
SameUsernameCreates ==
    /\ BothDone
    /\ call1.op = "create"
    /\ call2.op = "create"
    /\ lower(Val(call1.user_create).username) = lower(Val(call2.user_create).username)

WithUsername(file, username) ==
    {i \in DOMAIN file : lower(file[i].username) = lower(username)}

\* C6: of two concurrent creates with the same username, which no record had
\* and which both reach create_user, exactly one succeeds, the other fails
\* with the conflict error, and one record carries the username afterwards.
C6_OneCreateWins ==
    (/\ SameUsernameCreates
     /\ \A t \in Tasks : tasks[t].status # 403)
    => /\ ~(tasks["t1"].status = 200 /\ tasks["t2"].status = 200)
       /\ WithUsername(round.file, Val(call1.user_create).username) = {}
          => /\ \E t, u \in Tasks :
                   /\ t # u
                   /\ tasks[t].status = 200
                   /\ tasks[u].status = 400
                   /\ tasks[u].exc = "ValueError"
             /\ Cardinality(WithUsername(USERS_FILE,
                                         Val(call1.user_create).username)) = 1

\* two creates whose usernames differ in case only have both been answered
C6_Witness ==
    /\ SameUsernameCreates
    /\ Val(call1.user_create).username # Val(call2.user_create).username
    /\ WithUsername(round.file, Val(call1.user_create).username) = {}
    /\ tasks["t2"].status = 200
    /\ tasks["t1"].status = 400

\* the two requests are about different records
DifferentRecords ==
    IF call1.op = "create" /\ call2.op = "create"
    THEN lower(Val(call1.user_create).username)
            # lower(Val(call2.user_create).username)
    ELSE IF call1.op = "create" \/ call2.op = "create"
    THEN TRUE
    ELSE call1.user_id # call2.user_id

\* the persisted set shows the effect of the call
Reflects(call) ==
    CASE call.op = "create" ->
            \E i \in DOMAIN USERS_FILE :
                /\ USERS_FILE[i].username = Val(call.user_create).username
                /\ USERS_FILE[i].display_name = Val(call.user_create).display_name
                /\ USERS_FILE[i].is_admin = Val(call.user_create).is_admin
                /\ USERS_FILE[i].is_pet = Val(call.user_create).is_pet
      [] call.op = "update" ->
            \E i \in DOMAIN USERS_FILE :
                /\ USERS_FILE[i].id = call.user_id
                /\ Val(call.user_update).display_name # None
                      => USERS_FILE[i].display_name = Val(Val(call.user_update).display_name)
                /\ Val(call.user_update).is_pet # None
                      => USERS_FILE[i].is_pet = Val(Val(call.user_update).is_pet)
      [] call.op = "delete" ->
            \A i \in DOMAIN USERS_FILE : USERS_FILE[i].id # call.user_id

\* C7: when two concurrent mutating requests on different records have both
\* succeeded, the persisted set shows the effect of both.
C7_NoLostUpdate ==
    (/\ BothDone
     /\ call1.op # "list"
     /\ call2.op # "list"
     /\ tasks["t1"].status = 200
     /\ tasks["t2"].status = 200
     /\ DifferentRecords)
    => Reflects(call1) /\ Reflects(call2)

\* an update of one record and a create of another have both succeeded
C7_Witness ==
    /\ BothDone
    /\ tasks["t1"].status = 200
    /\ tasks["t2"].status = 200
    /\ call1.op = "update"
    /\ call2.op = "create"
    /\ USERS_FILE # round.file

\* the request in flight came through an endpoint
HttpHandled == HandledState /\ req.layer = "http"

\* the record of the target id when the request arrived, as get_users returns it
Target == get_users(res.before)[IndexOfId(res.before, req.user_id)]
HasTarget == IndexOfId(res.before, req.user_id) # 0

\* C11: a create, list or delete request, or an update request on another
\* user's record, by an actor with is_admin = false is answered 403 without a
\* call of the store, and the persisted set is as it was.
C11_NonAdminForbidden ==
    (/\ HttpHandled
     /\ ~Val(req.actor).is_admin
     /\ \/ req.op \in {"create", "list", "delete"}
        \/ req.op = "update" /\ req.user_id # Val(req.actor).id)
    => /\ res.status = 403
       /\ ~res.called
       /\ USERS_FILE = res.before

\* a non-admin has asked to delete another user's existing record
C11_Witness ==
    /\ HttpHandled
    /\ ~Val(req.actor).is_admin
    /\ req.op = "delete"
    /\ HasTarget
    /\ req.user_id # Val(req.actor).id
    /\ res.status = 403

\* C12: an update or delete request by an actor without is_owner, on another
\* record that has is_admin, fails with a permission error (403, or
\* PermissionError from the store) and the persisted set is as it was.
C12_AdminTargetNeedsOwner ==
    (/\ HttpHandled
     /\ req.op \in {"update", "delete"}
     /\ ~Val(req.actor).is_owner
     /\ HasTarget
     /\ Target.is_admin
     /\ Target.id # Val(req.actor).id)
    => /\ res.status = 403 \/ res.exc = "PermissionError"
       /\ USERS_FILE = res.before

\* the request asks to delete the actor's own record
SelfDelete ==
    /\ HttpHandled
    /\ req.op = "delete"
    /\ req.user_id = Val(req.actor).id

\* C13 as stated: a delete request on the actor's own id is answered with a
\* validation error (400) and the persisted set is as it was.
C13_SelfDeleteValidation ==
    SelfDelete => res.status = 400 /\ USERS_FILE = res.before

\* C13 as amended: a delete request on the actor's own id is denied without a
\* call of the store and the persisted set is as it was; the answer is the
\* validation error (400) for an actor with is_admin, and 403 for any other.
C13_SelfDeleteDenied ==
    SelfDelete =>
        /\ res.status = IF Val(req.actor).is_admin THEN 400 ELSE 403
        /\ ~res.called
        /\ USERS_FILE = res.before

\* an admin who is not the owner has asked to delete their own record
C13_Witness ==
    /\ SelfDelete
    /\ Val(req.actor).is_admin
    /\ ~Val(req.actor).is_owner
    /\ res.status = 400

\* C16: a create, update or delete request that the store refuses with
\* PermissionError is answered 403, and an update or delete request that
\* passes the endpoint's checks and names an id no record has is answered 404.
C16_DistinctOutcomes ==
    (HttpHandled /\ req.op \in {"create", "update", "delete"})
    => /\ res.exc = "PermissionError" => res.status = 403
       /\ (req.op \in {"update", "delete"} /\ ~HasTarget /\ res.called)
             => res.status = 404

\* an update_user call on an id that a record has
UpdateHandled ==
    /\ HandledState
    /\ req.layer = "store"
    /\ req.op = "update"
    /\ HasTarget

\* the current password the patch presents is the target's
PresentsCurrent ==
    /\ Val(req.user_update).current_password # None
    /\ Target.password_hash = bcrypt_hash(Val(Val(req.user_update).current_password))

\* no call changes a record's credential unless it is an update that presents
\* the record's current password
CredentialKept ==
    HandledState =>
        \A i \in DOMAIN res.before : \A j \in DOMAIN USERS_FILE :
            (/\ USERS_FILE[j].id = res.before[i].id
             /\ USERS_FILE[j].password_hash # res.before[i].password_hash)
            => /\ UpdateHandled
               /\ req.user_id = res.before[i].id
               /\ PresentsCurrent

\* C14 as stated: an update with a mismatching current password raises
\* ValueError and leaves the file as it was, and a credential changes only
\* through an update that presents the matching current password.
C14_MismatchRejected ==
    /\ (UpdateHandled
        /\ Truthy(Val(req.user_update).current_password)
        /\ ~PresentsCurrent)
       => res.exc = "ValueError" /\ USERS_FILE = res.before
    /\ CredentialKept

\* C14 as amended: an update that supplies a new password and a mismatching
\* current password fails and leaves the file as it was, with ValueError
\* unless one of the two permission rules denies it first; and a credential
\* changes only through an update that presents the matching current password.
C14_PasswordChangeNeedsCurrent ==
    /\ (UpdateHandled
        /\ changes_password(Val(req.user_update))
        /\ ~PresentsCurrent)
       => /\ USERS_FILE = res.before
          /\ \/ res.exc = "ValueError"
             \/ /\ res.exc = "PermissionError"
                /\ \/ owner_admin_block(Target, Val(req.user_update))
                   \/ admin_account_block(Target, req.actor)
    /\ CredentialKept

\* a password change with a wrong current password has been refused
C14_Witness ==
    /\ UpdateHandled
    /\ Val(req.user_update).current_password = Some(p2)
    /\ Val(req.user_update).new_password = Some(p2)
    /\ Val(req.user_update).display_name # None
    /\ Target.password_hash = bcrypt_hash(p1)
    /\ res.exc = "ValueError"

\* ADMIN_PASSWORD is set to a plaintext
PlaintextSupplied == Truthy(ADMIN_PASSWORD) /\ ~is_hash(Val(ADMIN_PASSWORD))

\* bootstrap has run on an empty store with a plaintext password supplied
BootHandled ==
    /\ HandledState
    /\ req.op = "initialize_admin_user"
    /\ res.before = <<>>
    /\ PlaintextSupplied

\* C15: bootstrap on an empty store with a plaintext password leaves exactly
\* one record, with the owner username, is_owner and is_admin, and verify_user
\* accepts the owner username with the supplied password and with no other.
C15_BootstrapOwner ==
    /\ BootHandled =>
          /\ Len(USERS_FILE) = 1
          /\ USERS_FILE[1].username = get_owner_username
          /\ USERS_FILE[1].is_owner
          /\ USERS_FILE[1].is_admin
          /\ \A password \in Passwords :
                verify_user(USERS_FILE, get_owner_username, password) # None
                    <=> password = Val(ADMIN_PASSWORD)
    /\ (/\ HandledState
        /\ req.op = "verify"
        /\ PlaintextSupplied
        /\ lower(Val(req.user_create).username) = lower(get_owner_username))
       => (res.ret # None <=> Val(req.user_create).password = Val(ADMIN_PASSWORD))

\* bootstrap has run with ADMIN_USERNAME and a plaintext ADMIN_PASSWORD set
C15_Witness ==
    /\ BootHandled
    /\ ADMIN_USERNAME = Some(Admin)
    /\ ADMIN_PASSWORD = Some(p1)
    /\ Len(USERS_FILE) = 1

\* the record with the owner username lacks a flag in the file
OwnerFlagMissing(file) ==
    \E i \in DOMAIN file :
        /\ ConfiguredOwner(file[i].username)
        /\ ~(file[i].is_owner /\ file[i].is_admin)

\* a mutating store call has returned normally and has written the file
Wrote ==
    /\ HandledState
    /\ req.layer = "store"
    /\ req.op \in {"create", "update", "delete"}
    /\ res.exc = ""
    /\ req.op = "create" \/ HasTarget

\* C17: when the stored owner record lacks is_owner or is_admin, the next
\* successful write, whichever record it is about, leaves the owner record
\* with both flags.
C17_OwnerSelfHeals ==
    (Wrote /\ OwnerFlagMissing(res.before)) => ~OwnerFlagMissing(USERS_FILE)

\* an update of another record has been written over a file whose owner
\* record had neither flag
C17_Witness ==
    /\ Wrote
    /\ req.op = "update"
    /\ ~ConfiguredOwner(Target.username)
    /\ \E i \in DOMAIN res.before :
          /\ ConfiguredOwner(res.before[i].username)
          /\ ~res.before[i].is_owner
          /\ ~res.before[i].is_admin
    /\ \E j \in DOMAIN USERS_FILE :
          /\ ConfiguredOwner(USERS_FILE[j].username)
          /\ USERS_FILE[j].is_owner
          /\ USERS_FILE[j].is_admin

\* C18: users.json always holds a complete record set, and a store call whose
\* write fails with an I/O error leaves the set that was persisted before it.
C18_WriteAllOrNothing ==
    /\ ~torn
    /\ (HandledState /\ res.exc = "OSError") => USERS_FILE = res.before


\* C19: a read of the user store that runs alongside a write returns the
\* complete record set some write of the round left, or the set from before
\* the round: it never fails on, or returns, an emptied or half-written file.
HasRead(t) ==
    /\ tasks[t].pc \in {"check", "write", "dump", "done"}
    /\ tasks[t].call # None
    /\ precheck(Val(tasks[t].call).op, Val(tasks[t].call).user_id,
                Val(Val(tasks[t].call).actor)) = 0

C19_ReadsSeeCompleteSets ==
    \A t \in Tasks :
        HasRead(t) =>
            /\ tasks[t].exc # "JSONDecodeError"
            /\ tasks[t].users \in {get_users(file) : file \in round.files}

\* a list request has read the set a write made alongside it has left
C19_Witness ==
    \E t, w \in Tasks :
        /\ t # w
        /\ tasks[t].pc = "done"
        /\ tasks[w].pc = "done"
        /\ Val(tasks[t].call).op = "list"
        /\ Val(tasks[w].call).op \in {"create", "update", "delete"}
        /\ tasks[w].write # <<>>
        /\ tasks[w].write # round.file
        /\ tasks[t].status = 200
        /\ tasks[t].users = get_users(tasks[w].write)
        /\ C19_ReadsSeeCompleteSets


\* C20: when a broadcast to a group returns, no exception has left it, every
\* connection of its snapshot whose transport works has received the message
\* exactly once, and every connection the delivery to which failed has
\* received nothing and is in no group.
Snapshot == {bcast.connections[i] : i \in DOMAIN bcast.connections}

C20_BroadcastIsolatesFailures ==
    bcast.pc = "returned" =>
        /\ bcast.raised = ""
        /\ \A c \in WebSockets :
              /\ c \notin Snapshot => bcast.received[c] = 0
              /\ c \in Snapshot =>
                    bcast.received[c] = IF c \in bcast.disconnected THEN 0 ELSE 1
              /\ (c \in Snapshot /\ websockets[c].transport = "open")
                    => bcast.received[c] = 1
              /\ c \in bcast.disconnected
                    => \A group \in Groups : c \notin active_connections[group]

\* a broadcast to "all" has returned: one connection got the message, one
\* with a closed transport was removed
C20_Witness ==
    /\ bcast.pc = "returned"
    /\ bcast.group = "all"
    /\ bcast.raised = ""
    /\ \E c, d \in Snapshot :
          /\ bcast.received[c] = 1
          /\ c \in active_connections["all"]
          /\ d \in bcast.disconnected
          /\ websockets[d].transport = "closed"
          /\ websockets[d].pc = "connected"
          /\ bcast.received[d] = 0


\* C22: a broadcast to a group the registry does not know returns without an
\* exception, sends to no connection and leaves every group as it was.
C22_UnknownGroupStep ==
    (bcast.pc = "idle" /\ bcast'.pc # "idle" /\ bcast'.group \notin Groups)
    => /\ bcast'.pc = "returned"
       /\ bcast'.raised = ""
       /\ bcast'.connections = <<>>
       /\ bcast'.disconnected = {}
       /\ \A c \in WebSockets : bcast'.received[c] = 0
       /\ active_connections' = active_connections
       /\ websockets' = websockets

C22_UnknownGroupNoOp == [][C22_UnknownGroupStep]_vars

\* a broadcast to an unknown group has returned while "all" has a member with
\* an open transport and one with a closed transport
C22_Witness ==
    /\ bcast.pc = "returned"
    /\ bcast.group \notin Groups
    /\ \E c, d \in active_connections["all"] :
          /\ websockets[c].transport = "open"
          /\ websockets[d].transport = "closed"
    /\ \A c \in WebSockets : bcast.received[c] = 0


\* C23: disconnect(conn) leaves conn in no group and every other member where
\* it was; a second call, or a call for a connection that is in no group,
\* changes nothing.
C23_DisconnectIdempotent ==
    \A conn \in WebSockets :
        LET once == disconnect(active_connections, {conn}) IN
        /\ DOMAIN once = DOMAIN active_connections
        /\ \A group \in Groups : once[group] = active_connections[group] \ {conn}
        /\ disconnect(once, {conn}) = once
        /\ (\A group \in Groups : conn \notin active_connections[group])
              => once = active_connections

\* the serving loop has disconnected a connection of "authenticated" that a
\* broadcast had pruned before (the second call), while the other connection
\* is still registered
C23_Witness ==
    \E conn, other \in WebSockets :
        /\ conn # other
        /\ websockets[conn].pc = "closed"
        /\ websockets[conn].group = "authenticated"
        /\ conn \in bcast.disconnected
        /\ bcast.pc = "returned"
        /\ other \in active_connections["authenticated"]
        /\ C23_DisconnectIdempotent


\* C30 as stated: every change of a group's set, by connect, by disconnect
\* and by the pruning inside broadcast, is made while the lock is held.
C30_MutationsUnderLock ==
    [][active_connections' # active_connections => mutation'.locked]_vars

\* C30: connect changes a group's set while it holds the lock; disconnect, and
\* the pruning inside broadcast that calls it, change the sets without taking
\* the lock, each in one synchronous call.
C30_LockOnlyInConnect ==
    [][active_connections' # active_connections
          => /\ mutation'.by \in {"connect", "disconnect", "broadcast"}
             /\ mutation'.locked <=> mutation'.by = "connect"]_vars

\* broadcast has pruned a connection that connect had added, and another
\* connection is still registered
C30_Witness ==
    /\ mutation.by = "broadcast"
    /\ ~mutation.locked
    /\ bcast.pc = "returned"
    /\ bcast.disconnected # {}
    /\ \E ws \in WebSockets : ws \in active_connections[websockets[ws].group]


\* the endpoint call for ws is in its serving loop, after connect
Serving(ws) == serving[ws].pc \in {"confirm", "wait", "handle", "keepalive"}

\* C21: the connections that the endpoint has accepted are registered in one
\* registry: the manager that holds one live connection in "all" holds every
\* other live connection too, so a broadcast to its "all" reaches them all.
C21_SharedRegistry ==
    \A a, b \in WebSockets :
        (Serving(a) /\ Serving(b)) => b \in managers[a]["all"]


\* ws is in no group of any manager
InNoGroup(ws) ==
    \A m \in WebSockets, group \in Groups : ws \notin managers[m][group]

\* the endpoint call for ws has returned after connect: disconnect has been
\* called once, and ws is in no group; before that it has not been called
C24_ExitState ==
    \A ws \in WebSockets :
        /\ serving[ws].pc = "ended"
              => serving[ws].disconnects = 1 /\ InNoGroup(ws)
        /\ serving[ws].pc # "ended" => serving[ws].disconnects = 0

\* C24: every way out of the serving loop after connect calls disconnect
\* exactly once, and a registered connection whose transport has gone is
\* eventually in no group.
C24_LoopExitDisconnectsOnce ==
    /\ []C24_ExitState
    /\ \A ws \in WebSockets :
          (Serving(ws) /\ serving[ws].transport = "closed") ~> InNoGroup(ws)

\* both ways out have been taken: one call has returned from the failed
\* confirmation send, the other through the finally clause after a timeout
\* whose keepalive send failed
C24_Witness ==
    \E a, b \in WebSockets :
        /\ serving[a].pc = "ended"
        /\ serving[a].event = "none"
        /\ serving[a].disconnects = 1
        /\ serving[b].pc = "ended"
        /\ serving[b].event = "timeout"
        /\ serving[b].disconnects = 1
        /\ InNoGroup(a)
        /\ InNoGroup(b)


\* C25: a timeout of the receive sends one keepalive frame; when that send
\* succeeds the loop waits again with the connection still in "all" of its
\* registry, and only a send that fails takes the loop to its exit.
C25_TimeoutKeepsConnection ==
    \A ws \in WebSockets :
        serving[ws].event = "timeout" =>
            /\ serving[ws].pc = "keepalive"
                  => /\ serving[ws].out = <<>>
                     /\ ws \in managers[ws]["all"]
            /\ serving[ws].pc = "wait"
                  => /\ serving[ws].out = <<JsonFrame("keepalive")>>
                     /\ ws \in managers[ws]["all"]
                     /\ serving[ws].disconnects = 0
            /\ serving[ws].pc \in {"finally", "ended"}
                  => /\ serving[ws].transport = "closed"
                     /\ serving[ws].out = <<>>
            /\ serving[ws].pc \in {"keepalive", "wait", "finally", "ended"}

\* a connection with a working transport waits again after a timeout
C25_Witness ==
    \E ws \in WebSockets :
        /\ serving[ws].event = "timeout"
        /\ serving[ws].pc = "wait"
        /\ serving[ws].transport = "open"
        /\ serving[ws].out = <<JsonFrame("keepalive")>>
        /\ ws \in managers[ws]["all"]


\* C26: the loop answers a "ping" with one text frame "pong", a "subscribe"
\* with one subscribed frame and any other text with nothing; it then waits
\* again with the connection registered, and leaves only when a reply could
\* not be sent.
C26_RepliesToClientText ==
    \A ws \in WebSockets :
        serving[ws].event \in ClientTexts =>
            /\ serving[ws].pc \in {"handle", "wait", "finally", "ended"}
            /\ serving[ws].pc = "handle" => serving[ws].out = <<>>
            /\ serving[ws].pc = "wait"
                  => /\ ws \in managers[ws]["all"]
                     /\ serving[ws].disconnects = 0
                     /\ serving[ws].event = "ping"
                           => serving[ws].out = <<[kind |-> "text", data |-> "pong"]>>
                     /\ serving[ws].event = "subscribe"
                           => serving[ws].out = <<[kind |-> "json", data |-> "subscribed"]>>
                     /\ serving[ws].event \notin {"ping", "subscribe"}
                           => serving[ws].out = <<>>
            /\ serving[ws].pc \in {"finally", "ended"}
                  => /\ serving[ws].event \in {"ping", "subscribe"}
                     /\ serving[ws].transport = "closed"
                     /\ serving[ws].out = <<>>

\* one connection waits again after its "ping", the other after a text the
\* loop does not know, which arrived on a transport that has gone since
C26_Witness ==
    \E a, b \in WebSockets :
        /\ serving[a].pc = "wait"
        /\ serving[a].event = "ping"
        /\ serving[a].out = <<TextFrame("pong")>>
        /\ serving[b].pc = "wait"
        /\ serving[b].event = "hello"
        /\ serving[b].transport = "closed"
        /\ serving[b].out = <<>>
        /\ b \in managers[b]["all"]


\* the fronting_update event a request owes after its switch
FrontingUpdate(data) == [type |-> "fronting_update", group |-> "all", data |-> data]

\* C27: a front-switch request whose switch has been applied is answered as a
\* success after exactly one fronting_update broadcast to "all" that carries
\* the fronters fetched after the switch; a request that fails broadcasts
\* nothing.
C27_SwitchBroadcastsOnce ==
    \A r \in Requests :
        switches[r].pc = "done" =>
            IF switches[r].applied /\ switches[r].fetched # None
            THEN /\ switches[r].status = 200
                 /\ switches[r].events = <<FrontingUpdate(Val(switches[r].fetched))>>
            ELSE switches[r].events = <<>>

\* C28: when the front-switch requests that ran side by side have all been
\* answered and a switch has been applied, a fronting_update with the fronters
\* PluralKit holds now has gone out to the connected clients.
C28_SubscribersConverge ==
    (/\ \A r \in Requests : switches[r].pc = "done"
     /\ \E r \in Requests : switches[r].applied
     /\ \E ws \in WebSockets : Serving(ws))
    => \E r \in Requests :
          /\ switches[r].events # <<>>
          /\ switches[r].events[Len(switches[r].events)] = FrontingUpdate(fronters)

\* the status or tag request in flight
StatusHandled ==
    /\ request # None
    /\ response # None
    /\ Val(request).op \in {"mental_state", "set_status", "clear_status",
                            "add_tag", "remove_tag"}

\* C29: a status or tag request that has changed the state is answered as a
\* success after exactly one broadcast to "all"; one that has changed nothing
\* broadcasts nothing.
C29_StatusBroadcastsOnce ==
    StatusHandled =>
        IF Val(response).mutated
        THEN /\ Val(response).status = 200
             /\ Len(Val(response).events) = 1
             /\ Val(response).events[1].group = "all"
        ELSE Val(response).events = <<>>


\* a users.py function has been called with a requesting_user on the record
\* of another id, which get_users returns with is_admin set
OnAdminOfAnother ==
    /\ HandledState
    /\ req.layer = "store"
    /\ req.op \in {"update", "delete"}
    /\ req.actor # None
    /\ HasTarget
    /\ Target.is_admin
    /\ Val(req.actor).id # req.user_id

C34_OwnerRuleBeforeSelfRule ==
    (/\ HttpHandled
     /\ req.op = "delete"
     /\ Val(req.actor).is_owner
     /\ req.user_id = Val(req.actor).id)
    => /\ res.status # 400
       /\ res.status = 403 \/ res.exc = "PermissionError"


\* C35: after a store call, every record a read returns and every record the
\* call has written has is_owner set exactly when its username is the
\* configured owner username, whatever is_owner value was stored.
C35_OwnerFlagDerived ==
    HandledState =>
        /\ \A i \in DOMAIN USERS_FILE :
              get_users(USERS_FILE)[i].is_owner
                 <=> ConfiguredOwner(USERS_FILE[i].username)
        /\ USERS_FILE # res.before
              => \A i \in DOMAIN USERS_FILE :
                    USERS_FILE[i].is_owner <=> ConfiguredOwner(USERS_FILE[i].username)


\* C36: update_user and delete_user on an id that no record has raise
\* nothing, return the not-found value (None, False) and leave users.json as
\* it was.
C36_AbsentIdNotFound ==
    (/\ HandledState
     /\ req.layer = "store"
     /\ req.op \in {"update", "delete"}
     /\ ~HasTarget)
    => /\ res.exc = ""
       /\ USERS_FILE = res.before
       /\ req.op = "update"
             => update_user(res.before, req.user_id, Val(req.user_update),
                            req.actor).ret = None
       /\ req.op = "delete"
             => delete_user(res.before, req.user_id, req.actor).ret = FALSE

\* a delete of an id that no record has, asked for by the owner, while the
\* file holds another record
C36_Witness ==
    /\ HandledState
    /\ req.layer = "store"
    /\ req.op = "delete"
    /\ ~HasTarget
    /\ req.actor # None
    /\ Len(USERS_FILE) = 2
    /\ res.exc = ""


\* update_user has returned the updated record of an id the file had
Updated ==
    /\ HandledState
    /\ req.layer = "store"
    /\ req.op = "update"
    /\ HasTarget
    /\ res.exc = ""

\* the fields of the target other than the two flags: id and username stay,
\* and what the patch omits stays
KeepsOmitted(old, new, patch) ==
    /\ new.id = old.id
    /\ new.username = old.username
    /\ patch.display_name = None => new.display_name = old.display_name
    /\ patch.is_pet = None => new.is_pet = old.is_pet
    /\ patch.avatar_url = None => new.avatar_url = old.avatar_url
    /\ patch.new_password = None => new.password_hash = old.password_hash

\* C39 as stated: a successful update leaves id, username and every omitted
\* field of the target as they were, and every other record identical.
C39_UpdateChangesTargetOnly ==
    Updated =>
        LET i == IndexOfId(res.before, req.user_id) IN
        /\ Len(USERS_FILE) = Len(res.before)
        /\ KeepsOmitted(res.before[i], USERS_FILE[i], Val(req.user_update))
        /\ USERS_FILE[i].is_owner = res.before[i].is_owner
        /\ Val(req.user_update).is_admin = None
              => USERS_FILE[i].is_admin = res.before[i].is_admin
        /\ \A j \in DOMAIN res.before : j # i => USERS_FILE[j] = res.before[j]

\* C39: a successful update leaves id, username and every omitted field of
\* the target as they were and every other record identical, but for the
\* flags is_owner and is_admin: the target's is_owner is set from its
\* username, and every record with the owner username gets both flags set.
C39_UpdateFrame ==
    Updated =>
        LET i == IndexOfId(res.before, req.user_id) IN
        /\ Len(USERS_FILE) = Len(res.before)
        /\ KeepsOmitted(res.before[i], USERS_FILE[i], Val(req.user_update))
        /\ USERS_FILE[i].is_owner = ConfiguredOwner(res.before[i].username)
        /\ Val(req.user_update).is_admin = None
              => USERS_FILE[i].is_admin
                    = (res.before[i].is_admin \/ ConfiguredOwner(res.before[i].username))
        /\ \A j \in DOMAIN res.before :
              j # i =>
                 USERS_FILE[j] =
                    IF ConfiguredOwner(res.before[j].username)
                    THEN [res.before[j] EXCEPT !.is_owner = TRUE, !.is_admin = TRUE]
                    ELSE res.before[j]

\* the display name of bob has been changed in a file in which the record
\* with the owner username lacked a flag
C39_Witness ==
    /\ Updated
    /\ Len(res.before) = 2
    /\ IndexOfId(res.before, req.user_id) = 2
    /\ ~(res.before[1].is_owner /\ res.before[1].is_admin)
    /\ Val(req.user_update).display_name # None
    /\ Val(req.user_update).is_pet = None
    /\ USERS_FILE[2].display_name # res.before[2].display_name
    /\ USERS_FILE[1] # res.before[1]


\* initialize_admin_user has run
Booted == HandledState /\ req.layer = "boot"

\* C40: when the store holds at least one record, initialize_admin_user
\* creates no record and changes none: the file is left as it was.
C40_BootstrapNoopOnRecords ==
    (Booted /\ res.before # <<>>) => USERS_FILE = res.before

\* initialize_admin_user has run on a file of two records whose owner record
\* lacks a flag, and has left it as it was
C40_Witness ==
    /\ Booted
    /\ Len(res.before) = 2
    /\ ~(res.before[1].is_owner /\ res.before[1].is_admin)
    /\ USERS_FILE = res.before


\* the delivery attempts a broadcast call has made to a connection: the sends
\* that went through and the one that failed
Attempts(call, c) ==
    call.received[c] + (IF c \in call.disconnected THEN 1 ELSE 0)

\* C37: the list a broadcast call copies is the group's membership at that
\* moment, and the call attempts delivery once to each connection of the list
\* and to no other: a connection registered during the loop gets no attempt,
\* and one deregistered after the copy gets one, whose failure is caught.
C37_AttemptsFollowSnapshot ==
    /\ [][(bcast.pc = "idle" /\ bcast'.pc = "sending")
             => {bcast'.connections[i] : i \in DOMAIN bcast'.connections}
                   = active_connections[bcast'.group]]_vars
    /\ [](bcast.pc = "sending"
             => \A i \in DOMAIN bcast.connections :
                   Attempts(bcast, bcast.connections[i])
                      = IF i < bcast.i THEN 1 ELSE 0)
    /\ []((bcast.pc = "returned" /\ bcast.group \in Groups)
             => /\ bcast.raised = ""
                /\ \A c \in WebSockets :
                      Attempts(bcast, c) = IF c \in Snapshot THEN 1 ELSE 0)

\* a broadcast has returned: one connection left the group after the copy and
\* its send failed, another joined the group during the loop and got nothing
C37_Witness ==
    /\ bcast.pc = "returned"
    /\ bcast.raised = ""
    /\ \E gone, late \in WebSockets :
          /\ gone \in Snapshot
          /\ websockets[gone].pc = "closed"
          /\ gone \in bcast.disconnected
          /\ late \notin Snapshot
          /\ late \in active_connections[bcast.group]
          /\ Attempts(bcast, late) = 0


\* the connections of the list a broadcast call copied
Copied(call) == {call.connections[i] : i \in DOMAIN call.connections}

\* C32: a broadcast call attempts delivery at most once to a connection, and
\* a connection whose delivery has failed in a call is in the list of no call
\* that copies the group afterwards (every connection of the list gets its
\* attempt, C37).
C32_DeadPrunedAtOnce ==
    /\ [](\A c \in WebSockets : Attempts(bcast, c) <= 1 /\ Attempts(overlap, c) <= 1)
    /\ [][(overlap.pc = "idle" /\ overlap'.pc = "sending")
             => Copied(overlap') \cap bcast.disconnected = {}]_vars
    /\ [][(bcast.pc = "idle" /\ bcast'.pc = "sending")
             => Copied(bcast') \cap overlap.disconnected = {}]_vars


\* some coroutine of the registry waits on the network: a connect in
\* websocket.accept(), a broadcast in send_text
NetworkWait ==
    \/ \E ws \in WebSockets : websockets[ws].pc = "new"
    \/ bcast.pc = "sending" /\ bcast.i <= Len(bcast.connections)
    \/ overlap.pc = "sending" /\ overlap.i <= Len(overlap.connections)

\* C31: _connection_lock is free whenever a coroutine waits on the network
\* and whenever a connect waits for the lock, so no connect is blocked, and
\* every connect that waits for the lock gets it and registers.
C31_LockNotHeldAcrossIO ==
    /\ [](NetworkWait => connection_lock = None)
    /\ [](\A ws \in WebSockets :
             websockets[ws].pc = "accepted" => connection_lock = None)
    /\ \A ws \in WebSockets :
          (websockets[ws].pc = "accepted") ~> (websockets[ws].pc = "connected")

\* one connect has taken and released the lock, another waits for it, and
\* a broadcast waits in a send
C31_Witness ==
    /\ mutation = [by |-> "connect", locked |-> TRUE]
    /\ connection_lock = None
    /\ \E a, b \in WebSockets :
          /\ websockets[a].pc = "connected"
          /\ websockets[b].pc = "accepted"
    /\ bcast.pc = "sending" /\ bcast.i <= Len(bcast.connections)


====
